---------------------------- MODULE Spec2Model ----------------------------
(***************************************************************************)
(* Obsonarium retailer storefront: the order-item status workflow of the   *)
(* orders page and the cart reconciliation logic of the wholesale pages,   *)
(* with the requests they have in flight.  The remote API is the           *)
(* environment: it answers each request at some point after it was sent,   *)
(* and the page handles each answer at some point after that, so answers   *)
(* may be handled in an order different from the order of the requests.    *)
(***************************************************************************)
EXTENDS Integers, Sequences, FiniteSets, Bags, TLC

(* ------------------------------ bounds -------------------------------- *)
\* Requests of one page in flight at the same time.
MaxInFlight == 2

\* Calls of loadProduct on the product detail page.
MaxDetailLoads == 2

\* The phone numbers typed: up to MaxPrefix characters before the digits 7.
MaxPrefix == 2

\* The customer queries the remote API holds.
NumQueries == 2

\* How far the quantity of a cart line may exceed the stock of its product
\* when the cart page is opened.
Overdraw == 1

(* ----------------------------- constants ------------------------------ *)
\* updatingItemId = null
NoItem == 0

\* The ids of the order items of the retailer.
Items == {1, 2}

\* The statuses the items may have when the page is opened.
InitialStatus == {"pending", "cancelled"}

Routes == {"orders", "wholesale", "detail", "cart", "checkout", "dashboard", "onboarding",
           "queries", "inventoryNew"}

VARIABLES
  route,        \* the page that is mounted ("signin" once a redirect happened)
  srvStatus,    \* remote API: status of each order item
  ordersPage,   \* orders page: loading, orders, errorMessage, updatingItemId
  patches,      \* orders page: status-update requests in flight (a bag)
  loads,        \* orders page: order-list requests in flight (a bag)
  srvCart,      \* remote API: quantity of each product in the cart (0: no line)
  wholesalePage,\* wholesale listing: loading, errorMessage, allProducts, products,
                \* minPrice, maxPrice, sortBy
  detailPage,   \* product detail: id, calls, currentFetch, loading, error,
                \* product, its cartQty, isQtyLoading
  cartPage,     \* cart page: loading, errorMessage, items, validatingStock
  cartReqs,     \* cart mutation requests in flight (a bag)
  fetches,      \* product-list, cart-content and validation requests in flight
                \* (a bag)
  reported,     \* the quantity of each product the remote API reported last
  srvProfile,   \* remote API: the retailer's profile (onboarded, retailer)
  srvQueries,   \* remote API: whether each customer query is resolved
  requests,     \* requests and timers of the pages below in flight (a bag)
  checkoutPage, \* checkout: loadingCart, cartItems, placingOrder, paymentMethod,
                \* orderPlaced
  dashboardPage,\* dashboard: checking, showDashboard, hasRedirected
  onboardingPage,\* onboarding: businessName, phone, address, loading, fetching,
                \* redirecting
  queriesPage,  \* queries: loading, queries, errorMessage, resolvingQueryId,
                \* showResolveForm, resolveResponse
  inventoryPage,\* new product: name, price, stockQty, imageUrl, uploadingImage,
                \* saving
  toast         \* the notification raised by the step just taken

ordersVars == <<srvStatus, ordersPage, patches, loads>>
cartVars == <<srvCart, wholesalePage, detailPage, cartPage, cartReqs, fetches, reported>>
formVars == <<srvProfile, srvQueries, requests, checkoutPage, dashboardPage, onboardingPage,
              queriesPage, inventoryPage>>
vars == <<route, ordersVars, cartVars, formVars, toast>>

\* A notification; args are the values its message is built from.
ToastWith(level, msg, args) == [level |-> level, msg |-> msg, args |-> args]
Toast(level, msg) == ToastWith(level, msg, <<>>)
NoToast == Toast("none", "")
One(r) == SetToBag({r})

(* ======================= orders page: the model ======================== *)

Status == {"pending", "accepted", "shipped", "delivered", "rejected", "cancelled"}

\* The lifecycle graph the remote API enforces on a status update.
Transition ==
  { <<"pending", "accepted">>, <<"pending", "rejected">>,
    <<"accepted", "shipped">>, <<"accepted", "rejected">>,
    <<"shipped", "delivered">> }

ActionButtons_CancelWhenShipped(s) ==
  IF s = "pending" THEN {"accepted", "rejected"}
  ELSE IF s = "accepted" THEN {"shipped", "rejected"}
  ELSE IF s = "shipped" THEN {"delivered", "rejected"}
  ELSE {}

ActionButtons_AcceptWhenRejected(s) ==
  IF s = "pending" THEN {"accepted", "rejected"}
  ELSE IF s = "accepted" THEN {"shipped", "rejected"}
  ELSE IF s = "shipped" THEN {"delivered"}
  ELSE IF s = "rejected" THEN {"accepted"}
  ELSE {}

\* The status action row: the statuses the buttons rendered for an item
\* of status s request.
ActionButtons(s) ==
  IF s = "pending" THEN {"accepted", "rejected"}
  ELSE IF s = "accepted" THEN {"shipped", "rejected"}
  ELSE IF s = "shipped" THEN {"delivered"}
  ELSE {}

\* disabled={updatingItemId === item.id}
ButtonDisabled(itemId) == ordersPage.updatingItemId = itemId

\* The item list is rendered only when not loading and not empty.
OrdersListShown == ~ordersPage.loading /\ DOMAIN ordersPage.orders # {}

\* A click on the button of item itemId that requests newStatus is possible.
CanClick(itemId, newStatus) ==
  /\ OrdersListShown
  /\ itemId \in DOMAIN ordersPage.orders
  /\ newStatus \in ActionButtons(ordersPage.orders[itemId])
  /\ ~ButtonDisabled(itemId)

PatchReq(itemId, newStatus, stage) ==
  [item |-> itemId, status |-> newStatus, stage |-> stage]

LoadReq(stage, snap, fromUpdate) ==
  [stage |-> stage, snap |-> snap, fromUpdate |-> fromUpdate]

\* loadOrders() up to its fetch.
LoadOrdersStart(fromUpdate) ==
  /\ ordersPage' = [ordersPage EXCEPT !.loading = TRUE, !.errorMessage = "null"]
  /\ loads' = loads (+) One(LoadReq("sent", <<>>, fromUpdate))

\* updateItemStatus(itemId, newStatus) up to its fetch.
UpdateItemStatus(itemId, newStatus) ==
  /\ route = "orders" /\ UNCHANGED <<cartVars, formVars>>
  /\ CanClick(itemId, newStatus)
  /\ BagCardinality(patches) + BagCardinality(loads) < MaxInFlight
  /\ ordersPage' = [ordersPage EXCEPT !.updatingItemId = itemId]
  /\ patches' = patches (+) One(PatchReq(itemId, newStatus, "sent"))
  /\ toast' = NoToast
  /\ UNCHANGED <<route, srvStatus, loads>>

\* The remote API applies a status update that is a transition of the
\* lifecycle graph and answers OK.  (A request it refuses, or that fails,
\* changes nothing there: the page sees that answer to a request that is
\* still "sent".)
ServerPatch(r) ==
  /\ route = "orders" /\ UNCHANGED <<cartVars, formVars>>
  /\ BagIn(r, patches) /\ r.stage = "sent"
  /\ <<srvStatus[r.item], r.status>> \in Transition
  /\ srvStatus' = [srvStatus EXCEPT ![r.item] = r.status]
  /\ patches' = (patches (-) One(r)) (+) One([r EXCEPT !.stage = "ok"])
  /\ toast' = NoToast
  /\ UNCHANGED <<route, ordersPage, loads>>

\* The remote API answers an order-list request with its current statuses.
ServerListOrders(l) ==
  /\ route = "orders" /\ UNCHANGED <<cartVars, formVars>>
  /\ BagIn(l, loads) /\ l.stage = "sent"
  /\ loads' = (loads (-) One(l)) (+) One([l EXCEPT !.stage = "ok", !.snap = srvStatus])
  /\ toast' = NoToast
  /\ UNCHANGED <<route, srvStatus, ordersPage, patches>>

\* updateItemStatus after its fetch: res.status === 401.
UpdateItemStatusUnauthorized(r) ==
  /\ route = "orders" /\ UNCHANGED <<cartVars, formVars>>
  /\ BagIn(r, patches) /\ r.stage = "sent"
  /\ toast' = Toast("error", "Please sign in to continue")
  /\ route' = "signin"
  /\ ordersPage' = [ordersPage EXCEPT !.updatingItemId = NoItem]
  /\ patches' = EmptyBag /\ loads' = EmptyBag
  /\ UNCHANGED srvStatus

UpdateItemStatusFailed_Retry(r) ==
  /\ route = "orders" /\ UNCHANGED <<cartVars, formVars>>
  /\ BagIn(r, patches) /\ r.stage = "sent"
  /\ patches' = (patches (-) One(r)) (+) One([r EXCEPT !.stage = "sent"])
  /\ toast' = Toast("error", "Failed to update status")
  /\ ordersPage' = [ordersPage EXCEPT !.updatingItemId = NoItem]
  /\ UNCHANGED <<route, srvStatus, loads>>

\* updateItemStatus after its fetch: !res.ok, or the fetch threw.
UpdateItemStatusFailed(r) ==
  /\ route = "orders" /\ UNCHANGED <<cartVars, formVars>>
  /\ BagIn(r, patches) /\ r.stage = "sent"
  /\ patches' = patches (-) One(r)
  /\ toast' = Toast("error", "Failed to update status")
  /\ ordersPage' = [ordersPage EXCEPT !.updatingItemId = NoItem]
  /\ UNCHANGED <<route, srvStatus, loads>>

UpdateItemStatusOk_LocalTransition(r) ==
  /\ route = "orders" /\ UNCHANGED <<cartVars, formVars>>
  /\ BagIn(r, patches) /\ r.stage = "ok"
  /\ patches' = patches (-) One(r)
  /\ toast' = Toast("success", "Order item status updated successfully")
  /\ ordersPage' = [ordersPage EXCEPT !.orders[r.item] = r.status,
                                      !.updatingItemId = NoItem]
  /\ UNCHANGED <<route, srvStatus, loads>>

\* updateItemStatus after its fetch: success, up to the fetch of the
\* loadOrders() it awaits.
UpdateItemStatusOk(r) ==
  /\ route = "orders" /\ UNCHANGED <<cartVars, formVars>>
  /\ BagIn(r, patches) /\ r.stage = "ok"
  /\ patches' = patches (-) One(r)
  /\ toast' = Toast("success", "Order item status updated successfully")
  /\ LoadOrdersStart(TRUE)
  /\ UNCHANGED <<route, srvStatus>>

\* The finally block of the updateItemStatus that awaited this loadOrders.
UpdateItemStatusFinally(l, page) ==
  IF l.fromUpdate THEN [page EXCEPT !.updatingItemId = NoItem] ELSE page

\* loadOrders after its fetch: res.status === 401.
LoadOrdersUnauthorized(l) ==
  /\ route = "orders" /\ UNCHANGED <<cartVars, formVars>>
  /\ BagIn(l, loads) /\ l.stage = "sent"
  /\ toast' = Toast("error", "Please sign in to continue")
  /\ route' = "signin"
  /\ ordersPage' = UpdateItemStatusFinally(l, [ordersPage EXCEPT !.loading = FALSE])
  /\ patches' = EmptyBag /\ loads' = EmptyBag
  /\ UNCHANGED srvStatus

\* loadOrders after its fetch: !res.ok, or the fetch threw.
LoadOrdersFailed(l) ==
  /\ route = "orders" /\ UNCHANGED <<cartVars, formVars>>
  /\ BagIn(l, loads) /\ l.stage = "sent"
  /\ loads' = loads (-) One(l)
  /\ ordersPage' = UpdateItemStatusFinally(l,
       [ordersPage EXCEPT !.loading = FALSE, !.errorMessage = "Failed to load orders"])
  /\ toast' = NoToast
  /\ UNCHANGED <<route, srvStatus, patches>>

\* loadOrders after its fetch: orders = data.orders.
LoadOrdersOk(l) ==
  /\ route = "orders" /\ UNCHANGED <<cartVars, formVars>>
  /\ BagIn(l, loads) /\ l.stage = "ok"
  /\ loads' = loads (-) One(l)
  /\ ordersPage' = UpdateItemStatusFinally(l,
       [ordersPage EXCEPT !.loading = FALSE, !.orders = l.snap])
  /\ toast' = NoToast
  /\ UNCHANGED <<route, srvStatus, patches>>

NextOrders ==
  \/ \E i \in Items, s \in Status : UpdateItemStatus(i, s)
  \/ \E r \in BagToSet(patches) : ServerPatch(r)
  \/ \E l \in BagToSet(loads) : ServerListOrders(l)
  \/ \E r \in BagToSet(patches) : UpdateItemStatusUnauthorized(r)
  \/ \E r \in BagToSet(patches) : UpdateItemStatusFailed(r)
  \/ \E r \in BagToSet(patches) : UpdateItemStatusOk(r)
  \/ \E l \in BagToSet(loads) : LoadOrdersUnauthorized(l)
  \/ \E l \in BagToSet(loads) : LoadOrdersFailed(l)
  \/ \E l \in BagToSet(loads) : LoadOrdersOk(l)

\* The orders page after construction: onMount has called loadOrders().
InitOrdersPage ==
  /\ ordersPage = [loading |-> TRUE, orders |-> <<>>, errorMessage |-> "null",
                   updatingItemId |-> NoItem]
  /\ patches = EmptyBag
  /\ loads = IF route = "orders" THEN One(LoadReq("sent", <<>>, FALSE)) ELSE EmptyBag

(* ==================== wholesale listing: the model ===================== *)

\* cartQty = null
Null == -99

\* The catalog the remote API serves, in the order it returns it.
Catalog == <<1, 2>>
Products == {Catalog[i] : i \in DOMAIN Catalog}
Price(p) == IF p = 1 THEN 10 ELSE 20
StockQty(p) == IF p = 1 THEN 2 ELSE 0

\* The values typed into the price filters ("" is null).
PriceInputs == {Null, 15}
SortOptions == {"default", "price_asc", "price_desc"}

SeqToSet(s) == {s[i] : i \in DOMAIN s}

\* A product object of the listing.
Product(id, cartQty, isQtyLoading) ==
  [id |-> id, cartQty |-> cartQty, isQtyLoading |-> isQtyLoading]

\* allProducts.find((p) => p.id === productId): its index, 0 when absent.
Find(all, productId) ==
  IF \E i \in DOMAIN all : all[i].id = productId
  THEN CHOOSE i \in DOMAIN all : all[i].id = productId
  ELSE 0

\* Assignments to the fields of the object of product productId.
SetCart(all, productId, cartQty, isQtyLoading) ==
  [i \in DOMAIN all |->
     IF i = Find(all, productId)
     THEN Product(productId, cartQty, isQtyLoading)
     ELSE all[i]]

\* filtered.filter(...): the price bounds.
PassesFilter(p, minPrice, maxPrice) ==
  /\ minPrice # Null => Price(p) >= minPrice
  /\ maxPrice # Null => Price(p) <= maxPrice

\* a sorts strictly before b.
SortsBefore(a, b, sortBy) ==
  IF sortBy = "price_asc" THEN Price(a) < Price(b)
  ELSE IF sortBy = "price_desc" THEN Price(b) < Price(a)
  ELSE FALSE

\* Array.prototype.sort is stable: x, which came first, goes before the
\* first element that does not sort strictly before it.
RECURSIVE SortInsert(_, _, _)
SortInsert(x, s, sortBy) ==
  IF s = <<>> THEN <<x>>
  ELSE IF SortsBefore(Head(s), x, sortBy)
       THEN <<Head(s)>> \o SortInsert(x, Tail(s), sortBy)
       ELSE <<x>> \o s

RECURSIVE SortIds(_, _)
SortIds(s, sortBy) ==
  IF s = <<>> THEN s
  ELSE SortInsert(Head(s), SortIds(Tail(s), sortBy), sortBy)

\* The products array is a sequence of ids.  The object it holds for an id
\* is the object of allProducts with that id, unless own, a function from
\* ids to objects, has one for the id: an object that is in products only.
\* ownSerial numbers the allocations of such objects.
NoObjects == <<>>

\* applyFiltersAndSort() making a copy of each object that passes the
\* filter, with cartQty and isQtyLoading of the object of the same id in
\* the products array as it was; products holds the copies.
ApplyFiltersAndSort_Copies(all, cartQuantityMap, ownSerial, minPrice, maxPrice, sortBy) ==
  LET ids == [i \in DOMAIN all |-> all[i].id]
      filtered == SortIds(SelectSeq(ids, LAMBDA p : PassesFilter(p, minPrice, maxPrice)),
                          sortBy)
  IN  [allProducts |-> all,
       products |-> filtered,
       own |-> [p \in SeqToSet(filtered) |->
                  IF p \in DOMAIN cartQuantityMap
                  THEN Product(p, cartQuantityMap[p].cartQty, cartQuantityMap[p].isQtyLoading)
                  ELSE all[Find(all, p)]],
       ownSerial |-> ownSerial + 1]

\* applyFiltersAndSort() without its cartQuantityMap: the objects that pass
\* the filter come out with no quantity and not loading.
ApplyFiltersAndSort_DropsCartState(all, cartQuantityMap, ownSerial, minPrice, maxPrice, sortBy) ==
  LET ids == [i \in DOMAIN all |-> all[i].id]
      filtered == SortIds(SelectSeq(ids, LAMBDA p : PassesFilter(p, minPrice, maxPrice)),
                          sortBy)
  IN  [allProducts |->
         [i \in DOMAIN all |->
            IF all[i].id \in SeqToSet(filtered)
            THEN Product(all[i].id, Null, FALSE)
            ELSE all[i]],
       products |-> filtered,
       own |-> NoObjects,
       ownSerial |-> ownSerial]

\* applyFiltersAndSort(): the objects of allProducts that pass the filter,
\* sorted; each takes cartQty and isQtyLoading from the object of the same
\* id in the products array as it was (cartQuantityMap, a function from ids
\* to objects).  products holds the very objects of allProducts: the map
\* callback assigns to p and returns p.
ApplyFiltersAndSort(all, cartQuantityMap, ownSerial, minPrice, maxPrice, sortBy) ==
  LET ids == [i \in DOMAIN all |-> all[i].id]
      filtered == SortIds(SelectSeq(ids, LAMBDA p : PassesFilter(p, minPrice, maxPrice)),
                          sortBy)
  IN  [allProducts |->
         [i \in DOMAIN all |->
            IF all[i].id \in SeqToSet(filtered) /\ all[i].id \in DOMAIN cartQuantityMap
            THEN Product(all[i].id, cartQuantityMap[all[i].id].cartQty,
                         cartQuantityMap[all[i].id].isQtyLoading)
            ELSE all[i]],
       products |-> filtered,
       own |-> NoObjects,
       ownSerial |-> ownSerial]

\* products.find((p) => p.id === productId), for an id of the array.
ProductsFind(page, productId) ==
  IF productId \in DOMAIN page.own
  THEN page.own[productId]
  ELSE page.allProducts[Find(page.allProducts, productId)]

\* new Map(products.map((p) => [p.id, {cartQty, isQtyLoading}]))
CartQuantityMap(page) ==
  [p \in SeqToSet(page.products) |-> ProductsFind(page, p)]

\* The page after applyFiltersAndSort() on the array all, with the given
\* filter state.
Applied(page, all, minPrice, maxPrice, sortBy) ==
  LET r == ApplyFiltersAndSort(all, CartQuantityMap(page), page.ownSerial,
                               minPrice, maxPrice, sortBy)
  IN  [page EXCEPT !.allProducts = r.allProducts, !.products = r.products,
                   !.own = r.own, !.ownSerial = r.ownSerial,
                   !.minPrice = minPrice, !.maxPrice = maxPrice, !.sortBy = sortBy]

\* The page after a handler of the filter controls.
Refiltered(page, minPrice, maxPrice, sortBy) ==
  Applied(page, page.allProducts, minPrice, maxPrice, sortBy)

\* The object of product p as the grid shows it.
Shown(p) == ProductsFind(wholesalePage, p)

\* The product grid is rendered, with a card for product p.
CardShown(p) ==
  /\ ~wholesalePage.loading
  /\ p \in SeqToSet(wholesalePage.products)

InFlight == BagCardinality(cartReqs) + BagCardinality(fetches)

\* A cart mutation request and the handler waiting for its answer.  On the
\* listing the handler holds the objects p and allP it found: live says
\* that allP is in allProducts, and p is 0 when p is that same object,
\* else the serial of the object of products that p is.
CartReq(kind, productId, oldQty, live, stage, quantity) ==
  [kind |-> kind, pid |-> productId, oldQty |-> oldQty, live |-> live, p |-> 0,
   stage |-> stage, quantity |-> quantity]

\* The request of a handler of the listing started on the card of
\* productId.
ListingReq(kind, productId, oldQty) ==
  [CartReq(kind, productId, oldQty, TRUE, "sent", 0) EXCEPT
     !.p = IF productId \in DOMAIN wholesalePage.own THEN wholesalePage.ownSerial ELSE 0]

Fetch(kind, stage, cart) ==
  [kind |-> kind, stage |-> stage, cart |-> cart, id |-> 0, ctl |-> 0]

NoCart == [p \in Products |-> 0]

\* The requests of bag B, each now holding objects that are in no array.
Detached(B) ==
  LET S == BagToSet(B)
      T == {[q EXCEPT !.live = FALSE] : q \in S}
  IN  [t \in T |->
         BagCardinality([q \in {x \in S : [x EXCEPT !.live = FALSE] = t}
                           |-> CopiesIn(q, B)])]

\* handleMinPriceChange(value)
HandleMinPriceChange(value) ==
  /\ route = "wholesale"
  /\ wholesalePage' = Refiltered(wholesalePage, value, wholesalePage.maxPrice,
                                 wholesalePage.sortBy)
  /\ toast' = NoToast
  /\ UNCHANGED <<route, ordersVars, formVars, cartPage, detailPage, srvCart, cartReqs, fetches, reported>>

\* handleMaxPriceChange(value)
HandleMaxPriceChange(value) ==
  /\ route = "wholesale"
  /\ wholesalePage' = Refiltered(wholesalePage, wholesalePage.minPrice, value,
                                 wholesalePage.sortBy)
  /\ toast' = NoToast
  /\ UNCHANGED <<route, ordersVars, formVars, cartPage, detailPage, srvCart, cartReqs, fetches, reported>>

\* handleSortChange(newSort)
HandleSortChange(newSort) ==
  /\ route = "wholesale"
  /\ wholesalePage' = Refiltered(wholesalePage, wholesalePage.minPrice,
                                 wholesalePage.maxPrice, newSort)
  /\ toast' = NoToast
  /\ UNCHANGED <<route, ordersVars, formVars, cartPage, detailPage, srvCart, cartReqs, fetches, reported>>

\* clearFilters()
ClearFilters ==
  /\ route = "wholesale"
  /\ wholesalePage' = Refiltered(wholesalePage, Null, Null, "default")
  /\ toast' = NoToast
  /\ UNCHANGED <<route, ordersVars, formVars, cartPage, detailPage, srvCart, cartReqs, fetches, reported>>

\* performSearch() with a query that is not blank: loadProducts(query) up
\* to its fetch.
PerformSearch ==
  /\ route = "wholesale"
  /\ InFlight < MaxInFlight
  /\ wholesalePage' = [wholesalePage EXCEPT !.loading = TRUE, !.errorMessage = "null"]
  /\ fetches' = fetches (+) One(Fetch("products", "sent", NoCart))
  /\ toast' = NoToast
  /\ UNCHANGED <<route, ordersVars, formVars, cartPage, detailPage, srvCart, cartReqs, reported>>

\* The cart page is mounted, or was left through goto() with requests in
\* flight.
CartPageRoutes == {"cart", "signin", "checkout"}

\* The routes on which requests to the cart API may be in flight.
CartRoutes == {"wholesale", "detail"} \cup CartPageRoutes

\* The remote API answers a cart-content request with its current lines.
ServerCart(f) ==
  /\ route \in CartRoutes
  /\ BagIn(f, fetches) /\ f.kind = "cart" /\ f.stage = "sent"
  /\ fetches' = (fetches (-) One(f)) (+) One([f EXCEPT !.stage = "ok", !.cart = srvCart])
  /\ toast' = NoToast
  /\ UNCHANGED <<route, ordersVars, formVars, cartPage, detailPage, srvCart, wholesalePage, cartReqs, reported>>

\* loadProducts after its fetch: !response.ok, or the fetch threw.
LoadProductsFailed(f) ==
  /\ route = "wholesale"
  /\ BagIn(f, fetches) /\ f.kind = "products" /\ f.stage = "sent"
  /\ fetches' = fetches (-) One(f)
  /\ wholesalePage' = [wholesalePage EXCEPT !.errorMessage = "Failed to fetch products.",
                                            !.products = <<>>,
                                            !.own = NoObjects,
                                            !.loading = FALSE]
  /\ toast' = NoToast
  /\ UNCHANGED <<route, ordersVars, formVars, cartPage, detailPage, srvCart, cartReqs, reported>>

\* loadProducts after its fetch: allProducts is a list of new objects,
\* applyFiltersAndSort(), then loadCartQuantities() up to its fetch.  The
\* objects the requests in flight hold are in no array any more.
LoadProductsOk(f) ==
  /\ route = "wholesale"
  /\ BagIn(f, fetches) /\ f.kind = "products" /\ f.stage = "sent"
  /\ LET fresh == [i \in DOMAIN Catalog |-> Product(Catalog[i], Null, FALSE)]
     IN  wholesalePage' = Applied(wholesalePage, fresh, wholesalePage.minPrice,
                                  wholesalePage.maxPrice, wholesalePage.sortBy)
  /\ cartReqs' = Detached(cartReqs)
  /\ fetches' = (fetches (-) One(f)) (+) One(Fetch("cart", "sent", NoCart))
  /\ toast' = NoToast
  /\ UNCHANGED <<route, ordersVars, formVars, cartPage, detailPage, srvCart, reported>>

\* The remote API answers a cart-content request of the listing with 401.
\* (The listing raises no notification for this answer, so the request
\* carries it until loadCartQuantities handles it.)
ServerCartUnauthorized(f) ==
  /\ route = "wholesale"
  /\ BagIn(f, fetches) /\ f.kind = "cart" /\ f.stage = "sent"
  /\ fetches' = (fetches (-) One(f)) (+) One([f EXCEPT !.stage = "unauth"])
  /\ toast' = NoToast
  /\ UNCHANGED <<route, ordersVars, formVars, cartPage, detailPage, srvCart, wholesalePage, cartReqs,
                 reported>>

\* loadCartQuantities after its fetch: 401 ("unauth"), or !response.ok or
\* the fetch threw ("sent"); then the finally block of loadProducts.
LoadCartQuantitiesSkipped(f) ==
  /\ route = "wholesale"
  /\ BagIn(f, fetches) /\ f.kind = "cart" /\ f.stage \in {"sent", "unauth"}
  /\ fetches' = fetches (-) One(f)
  /\ wholesalePage' = [wholesalePage EXCEPT !.loading = FALSE]
  /\ toast' = NoToast
  /\ UNCHANGED <<route, ordersVars, formVars, cartPage, detailPage, srvCart, cartReqs, reported>>

\* loadCartQuantities after its fetch: every object whose product has a
\* cart line takes the line's quantity; then the finally block of
\* loadProducts.
LoadCartQuantitiesOk(f) ==
  /\ route = "wholesale"
  /\ BagIn(f, fetches) /\ f.kind = "cart" /\ f.stage = "ok"
  /\ fetches' = fetches (-) One(f)
  /\ LET all == wholesalePage.allProducts
         own == wholesalePage.own
     IN  wholesalePage' =
           [wholesalePage EXCEPT
              !.own = [p \in DOMAIN own |->
                         IF f.cart[p] > 0
                         THEN Product(p, f.cart[p], own[p].isQtyLoading)
                         ELSE own[p]],
              !.allProducts = [i \in DOMAIN all |->
                                 IF f.cart[all[i].id] > 0
                                 THEN Product(all[i].id, f.cart[all[i].id],
                                              all[i].isQtyLoading)
                                 ELSE all[i]],
              !.loading = FALSE]
  /\ reported' = f.cart
  /\ toast' = NoToast
  /\ UNCHANGED <<route, ordersVars, formVars, cartPage, detailPage, srvCart, cartReqs>>

\* The assignments a handler makes to the objects p and allP it holds:
\* they show in an array only while the object is still in it.
Assign(q, cartQty, isQtyLoading) ==
  [wholesalePage EXCEPT
     !.allProducts = IF q.live THEN SetCart(@, q.pid, cartQty, isQtyLoading) ELSE @,
     !.own = IF q.p # 0 /\ q.p = wholesalePage.ownSerial /\ q.pid \in DOMAIN @
             THEN [@ EXCEPT ![q.pid] = Product(q.pid, cartQty, isQtyLoading)]
             ELSE @]

\* The "Add to Cart" button of product p is rendered and enabled.
AddButtonEnabled(p) ==
  /\ CardShown(p)
  /\ Shown(p).cartQty = Null
  /\ StockQty(p) # 0

\* The "+" button of product p is rendered and enabled.
PlusButtonEnabled(p) ==
  /\ CardShown(p)
  /\ Shown(p).cartQty # Null
  /\ ~(Shown(p).isQtyLoading \/ Shown(p).cartQty >= StockQty(p))

\* The "-" button of product p is rendered and enabled.
MinusButtonEnabled(p) ==
  /\ CardShown(p)
  /\ Shown(p).cartQty # Null
  /\ ~Shown(p).isQtyLoading

\* addToCart(productId) up to its fetch.
AddToCart(productId) ==
  /\ route = "wholesale"
  /\ AddButtonEnabled(productId)
  /\ InFlight < MaxInFlight
  /\ LET optimistic == (IF Shown(productId).cartQty = Null THEN 0
                        ELSE Shown(productId).cartQty) + 1
     IN  wholesalePage' = Assign(ListingReq("add", productId, Null), optimistic, TRUE)
  /\ cartReqs' = cartReqs (+) One(ListingReq("add", productId, Null))
  /\ toast' = Toast("success", "added to cart")
  /\ UNCHANGED <<route, ordersVars, formVars, cartPage, detailPage, srvCart, fetches, reported>>

\* increaseQty(productId) up to its fetch, or to its return at the stock
\* limit.
IncreaseQty(productId) ==
  /\ route = "wholesale"
  /\ PlusButtonEnabled(productId)
  /\ IF Shown(productId).cartQty >= StockQty(productId)
     THEN /\ toast' = Toast("error", "Only N available in stock. Cannot add more.")
          /\ UNCHANGED <<wholesalePage, cartReqs>>
     ELSE /\ InFlight < MaxInFlight
          /\ wholesalePage' = Assign(ListingReq("inc", productId, Shown(productId).cartQty),
                                     Shown(productId).cartQty + 1, TRUE)
          /\ cartReqs' = cartReqs (+)
               One(ListingReq("inc", productId, Shown(productId).cartQty))
          /\ toast' = NoToast
  /\ UNCHANGED <<route, ordersVars, formVars, cartPage, detailPage, srvCart, fetches, reported>>

\* decreaseQty(productId) up to its fetch.
DecreaseQty(productId) ==
  /\ route = "wholesale"
  /\ MinusButtonEnabled(productId)
  /\ InFlight < MaxInFlight
  /\ wholesalePage' = Assign(ListingReq("dec", productId, Shown(productId).cartQty),
                             Shown(productId).cartQty - 1, TRUE)
  /\ cartReqs' = cartReqs (+)
       One(ListingReq("dec", productId, Shown(productId).cartQty))
  /\ toast' = NoToast
  /\ UNCHANGED <<route, ordersVars, formVars, cartPage, detailPage, srvCart, fetches, reported>>

\* The signed delta a cart mutation request carries.
Delta(q) == IF q.kind = "dec" THEN -1 ELSE 1

\* The remote API applies a cart mutation: it adds the delta to the line,
\* within the stock, and answers with the new absolute quantity (it keeps
\* no line for a quantity of 0).  (A request it refuses, or that fails, or
\* that it answers with 401 changes nothing there: the page sees that
\* answer to a request that is still "sent".)
ServerCartMutation(q) ==
  /\ route \in CartRoutes
  /\ BagIn(q, cartReqs) /\ q.kind \in {"add", "inc", "dec"} /\ q.stage = "sent"
  /\ srvCart[q.pid] + Delta(q) <= StockQty(q.pid)
  /\ LET new == IF srvCart[q.pid] + Delta(q) < 0 THEN 0 ELSE srvCart[q.pid] + Delta(q)
     IN  /\ srvCart' = [srvCart EXCEPT ![q.pid] = new]
         /\ cartReqs' = (cartReqs (-) One(q)) (+)
                        One([q EXCEPT !.stage = "ok", !.quantity = new])
  /\ toast' = NoToast
  /\ UNCHANGED <<route, ordersVars, formVars, cartPage, detailPage, wholesalePage, fetches, reported>>

\* The answers a page may see to a request: OK once the remote API has
\* applied it, otherwise a refusal or failure, or 401.
Outcomes == {"ok", "fail", "unauth"}
Answered(q, outcome) == (outcome = "ok") = (q.stage = "ok")

\* A cart mutation after its fetch: res.status === 401, goto('/signin').
\* The page is left as it is, and with it its requests.
CartMutationUnauthorized(q, msg) ==
  /\ toast' = Toast("error", msg)
  /\ route' = "signin"
  /\ cartReqs' = EmptyBag /\ fetches' = EmptyBag
  /\ UNCHANGED <<ordersVars, formVars, cartPage, detailPage, srvCart, wholesalePage, reported>>

\* addToCart after its fetch.
AddToCartSettled(q, outcome) ==
  /\ route = "wholesale"
  /\ BagIn(q, cartReqs) /\ q.kind = "add"
  /\ Answered(q, outcome)
  /\ IF outcome = "unauth"
     THEN CartMutationUnauthorized(q, "Please sign in to add items to cart")
     ELSE /\ cartReqs' = cartReqs (-) One(q)
          /\ IF outcome = "ok"
             THEN /\ wholesalePage' = Assign(q, q.quantity, FALSE)
                  /\ reported' = [reported EXCEPT ![q.pid] = q.quantity]
                  /\ toast' = NoToast
             ELSE /\ wholesalePage' = Assign(q, Null, FALSE)
                  /\ reported' = reported
                  /\ toast' = Toast("error", "Failed to add to cart")
          /\ UNCHANGED <<route, ordersVars, formVars, cartPage, detailPage, srvCart, fetches>>

\* increaseQty after its fetch.
IncreaseQtySettled(q, outcome) ==
  /\ route = "wholesale"
  /\ BagIn(q, cartReqs) /\ q.kind = "inc"
  /\ Answered(q, outcome)
  /\ IF outcome = "unauth"
     THEN CartMutationUnauthorized(q, "Please sign in to continue")
     ELSE /\ cartReqs' = cartReqs (-) One(q)
          /\ IF outcome = "ok"
             THEN /\ wholesalePage' = Assign(q, q.quantity, FALSE)
                  /\ reported' = [reported EXCEPT ![q.pid] = q.quantity]
                  /\ toast' = NoToast
             ELSE /\ wholesalePage' = Assign(q, q.oldQty, FALSE)
                  /\ reported' = reported
                  /\ toast' = Toast("error", "Failed to update quantity")
          /\ UNCHANGED <<route, ordersVars, formVars, cartPage, detailPage, srvCart, fetches>>

\* decreaseQty after its fetch.
DecreaseQtySettled(q, outcome) ==
  /\ route = "wholesale"
  /\ BagIn(q, cartReqs) /\ q.kind = "dec"
  /\ Answered(q, outcome)
  /\ IF outcome = "unauth"
     THEN CartMutationUnauthorized(q, "Please sign in to continue")
     ELSE /\ cartReqs' = cartReqs (-) One(q)
          /\ IF outcome = "ok"
             THEN /\ wholesalePage' =
                       Assign(q, IF q.quantity <= 0 THEN Null ELSE q.quantity, FALSE)
                  /\ reported' = [reported EXCEPT ![q.pid] = q.quantity]
                  /\ toast' = NoToast
             ELSE /\ wholesalePage' = Assign(q, q.oldQty, FALSE)
                  /\ reported' = reported
                  /\ toast' = Toast("error", "Failed to update quantity")
          /\ UNCHANGED <<route, ordersVars, formVars, cartPage, detailPage, srvCart, fetches>>

NextWholesale ==
  \/ \E v \in PriceInputs : HandleMinPriceChange(v)
  \/ \E v \in PriceInputs : HandleMaxPriceChange(v)
  \/ \E o \in SortOptions : HandleSortChange(o)
  \/ ClearFilters
  \/ PerformSearch
  \/ \E f \in BagToSet(fetches) : ServerCart(f)
  \/ \E f \in BagToSet(fetches) : ServerCartUnauthorized(f)
  \/ \E f \in BagToSet(fetches) : LoadProductsFailed(f)
  \/ \E f \in BagToSet(fetches) : LoadProductsOk(f)
  \/ \E f \in BagToSet(fetches) : LoadCartQuantitiesSkipped(f)
  \/ \E f \in BagToSet(fetches) : LoadCartQuantitiesOk(f)
  \/ \E p \in Products : AddToCart(p)
  \/ \E p \in Products : IncreaseQty(p)
  \/ \E p \in Products : DecreaseQty(p)
  \/ \E q \in BagToSet(cartReqs) : ServerCartMutation(q)
  \/ \E q \in BagToSet(cartReqs), o \in Outcomes : AddToCartSettled(q, o)
  \/ \E q \in BagToSet(cartReqs), o \in Outcomes : IncreaseQtySettled(q, o)
  \/ \E q \in BagToSet(cartReqs), o \in Outcomes : DecreaseQtySettled(q, o)

(* ===================== product detail: the model ======================= *)

\* product = null, currentFetch = null
NoProduct == 0
NoController == 0

\* The product whose detail page is opened first ($page.params.id).
DetailProduct == 1

\* A request of loadProduct: the product it asks for (kind "product") and
\* the AbortController whose signal it carries.
DetailFetch(kind, stage, cart, id, ctl) ==
  [kind |-> kind, stage |-> stage, cart |-> cart, id |-> id, ctl |-> ctl]

\* currentFetch.abort(): the requests carrying the signal of controller ctl
\* reject with an AbortError.
Aborted(B, ctl) ==
  LET S == BagToSet(B)
      Abort(f) == IF f.ctl = ctl THEN [f EXCEPT !.stage = "aborted", !.cart = NoCart] ELSE f
      T == {Abort(f) : f \in S}
  IN  [t \in T |-> BagCardinality([f \in {x \in S : Abort(x) = t} |-> CopiesIn(f, B)])]

\* The product block of the template is rendered.
DetailShown ==
  /\ ~detailPage.loading
  /\ detailPage.error = "null"
  /\ detailPage.product # NoProduct

\* The finally block of loadProduct.
Finally(page) == [page EXCEPT !.loading = FALSE, !.currentFetch = NoController]

\* The catch block of loadProduct for an error that is no AbortError, and
\* the finally block.
Caught(page) == Finally([page EXCEPT !.error = "Failed to load product details"])

\* The $effect runs loadProduct(id) for a new $page.params.id, up to its
\* first fetch.
LoadProduct(id) ==
  /\ route = "detail"
  /\ id # detailPage.id
  /\ detailPage.calls < MaxDetailLoads
  /\ InFlight < MaxInFlight
  /\ fetches' = (IF detailPage.currentFetch # NoController
                 THEN Aborted(fetches, detailPage.currentFetch)
                 ELSE fetches)
                (+) One(DetailFetch("product", "sent", NoCart, id, detailPage.calls + 1))
  /\ detailPage' = [detailPage EXCEPT !.id = id, !.calls = @ + 1,
                                      !.currentFetch = detailPage.calls + 1,
                                      !.loading = TRUE, !.error = "null"]
  /\ toast' = NoToast
  /\ UNCHANGED <<route, ordersVars, formVars, cartPage, srvCart, wholesalePage, cartReqs, reported>>

\* loadProduct after a fetch that was aborted, outside the inner try: the
\* catch block leaves error alone; then the finally block.
LoadProductAborted(f) ==
  /\ route = "detail"
  /\ BagIn(f, fetches) /\ f.kind \in {"product", "wholesaler"} /\ f.stage = "aborted"
  /\ fetches' = fetches (-) One(f)
  /\ detailPage' = Finally(detailPage)
  /\ toast' = NoToast
  /\ UNCHANGED <<route, ordersVars, formVars, cartPage, srvCart, wholesalePage, cartReqs, reported>>

\* loadProduct after its first fetch: !res.ok, or the fetch threw.
LoadProductFailed(f) ==
  /\ route = "detail"
  /\ BagIn(f, fetches) /\ f.kind = "product" /\ f.stage = "sent"
  /\ fetches' = fetches (-) One(f)
  /\ detailPage' = Caught(detailPage)
  /\ toast' = NoToast
  /\ UNCHANGED <<route, ordersVars, formVars, cartPage, srvCart, wholesalePage, cartReqs, reported>>

\* loadProduct from the end of its inner try to its next fetch, which
\* carries currentFetch.signal: a TypeError when currentFetch is null.
ThenWholesaler(page, f) ==
  IF page.currentFetch = NoController
  THEN /\ detailPage' = Caught(page)
       /\ fetches' = fetches (-) One(f)
  ELSE /\ detailPage' = page
       /\ fetches' = (fetches (-) One(f)) (+)
                     One(DetailFetch("wholesaler", "sent", NoCart, NoProduct, page.currentFetch))

\* loadProduct after its first fetch: product is a new object, then the
\* cart request, which carries currentFetch.signal (a TypeError the inner
\* try ignores when currentFetch is null).
LoadProductOk(f) ==
  /\ route = "detail"
  /\ BagIn(f, fetches) /\ f.kind = "product" /\ f.stage = "sent"
  /\ LET page == [detailPage EXCEPT !.product = f.id, !.cartQty = Null,
                                    !.isQtyLoading = FALSE]
     IN  IF page.currentFetch = NoController
         THEN ThenWholesaler(page, f)
         ELSE /\ detailPage' = page
              /\ fetches' = (fetches (-) One(f)) (+)
                            One(DetailFetch("cart", "sent", NoCart, NoProduct, page.currentFetch))
  /\ toast' = NoToast
  /\ UNCHANGED <<route, ordersVars, formVars, cartPage, srvCart, wholesalePage, cartReqs, reported>>

\* loadProduct after its cart fetch: the quantity of the line of product
\* if the answer is OK and has one (an abort or another error is ignored);
\* then the wholesaler request.
LoadProductCart(f, outcome) ==
  /\ route = "detail"
  /\ BagIn(f, fetches) /\ f.kind = "cart"
  /\ (outcome = "aborted") = (f.stage = "aborted")
  /\ (outcome = "ok") = (f.stage = "ok")
  /\ ThenWholesaler(IF outcome = "ok" /\ f.cart[detailPage.product] > 0
                    THEN [detailPage EXCEPT !.cartQty = f.cart[detailPage.product]]
                    ELSE detailPage, f)
  /\ toast' = NoToast
  /\ UNCHANGED <<route, ordersVars, formVars, cartPage, srvCart, wholesalePage, cartReqs, reported>>

\* loadProduct after its wholesaler fetch (the fetch threw, or it was
\* answered), and its finally block.
LoadProductWholesaler(f, threw) ==
  /\ route = "detail"
  /\ BagIn(f, fetches) /\ f.kind = "wholesaler" /\ f.stage = "sent"
  /\ fetches' = fetches (-) One(f)
  /\ detailPage' = IF threw THEN Caught(detailPage) ELSE Finally(detailPage)
  /\ toast' = NoToast
  /\ UNCHANGED <<route, ordersVars, formVars, cartPage, srvCart, wholesalePage, cartReqs, reported>>

\* addToCart() of the detail page up to its fetch ("Add to Cart" is
\* rendered and enabled).
DetailAddToCart ==
  /\ route = "detail"
  /\ DetailShown /\ detailPage.cartQty = Null /\ StockQty(detailPage.product) # 0
  /\ InFlight < MaxInFlight
  /\ detailPage' = [detailPage EXCEPT !.isQtyLoading = TRUE, !.cartQty = 0 + 1]
  /\ cartReqs' = cartReqs (+) One(CartReq("add", detailPage.product, Null, TRUE, "sent", 0))
  /\ toast' = Toast("success", "added to cart")
  /\ UNCHANGED <<route, ordersVars, formVars, cartPage, srvCart, wholesalePage, fetches, reported>>

\* increaseQty() of the detail page up to its fetch ("+" is rendered and
\* enabled: disabled={product.isQtyLoading}).
DetailIncreaseQty ==
  /\ route = "detail"
  /\ DetailShown /\ detailPage.cartQty # Null /\ ~detailPage.isQtyLoading
  /\ InFlight < MaxInFlight
  /\ detailPage' = [detailPage EXCEPT !.cartQty = @ + 1, !.isQtyLoading = TRUE]
  /\ cartReqs' = cartReqs (+)
       One(CartReq("inc", detailPage.product, detailPage.cartQty, TRUE, "sent", 0))
  /\ toast' = NoToast
  /\ UNCHANGED <<route, ordersVars, formVars, cartPage, srvCart, wholesalePage, fetches, reported>>

\* decreaseQty() of the detail page up to its fetch ("-" is rendered and
\* enabled).
DetailDecreaseQty ==
  /\ route = "detail"
  /\ DetailShown /\ detailPage.cartQty # Null /\ ~detailPage.isQtyLoading
  /\ InFlight < MaxInFlight
  /\ detailPage' = [detailPage EXCEPT !.cartQty = @ - 1, !.isQtyLoading = TRUE]
  /\ cartReqs' = cartReqs (+)
       One(CartReq("dec", detailPage.product, detailPage.cartQty, TRUE, "sent", 0))
  /\ toast' = NoToast
  /\ UNCHANGED <<route, ordersVars, formVars, cartPage, srvCart, wholesalePage, fetches, reported>>

\* A cart mutation of the detail page after its fetch: 401 raises msg401
\* and leaves the page; otherwise cartQty is the answer's quantity (okQty)
\* or, on a failure, rollback with msgFailed; then isQtyLoading = false.
DetailSettled(q, outcome, okQty, rollback, msg401, msgFailed) ==
  /\ route = "detail"
  /\ Answered(q, outcome)
  /\ IF outcome = "unauth"
     THEN /\ toast' = Toast("error", msg401)
          /\ route' = "signin"
          /\ cartReqs' = EmptyBag /\ fetches' = EmptyBag
          /\ UNCHANGED detailPage
     ELSE /\ cartReqs' = cartReqs (-) One(q)
          /\ detailPage' = [detailPage EXCEPT
                              !.cartQty = IF outcome = "ok" THEN okQty ELSE rollback,
                              !.isQtyLoading = FALSE]
          /\ toast' = IF outcome = "ok" THEN NoToast ELSE Toast("error", msgFailed)
          /\ UNCHANGED <<route, fetches>>
  /\ UNCHANGED <<ordersVars, formVars, cartPage, srvCart, wholesalePage, reported>>

\* addToCart() of the detail page after its fetch.
DetailAddToCartSettled(q, outcome) ==
  /\ BagIn(q, cartReqs) /\ q.kind = "add"
  /\ DetailSettled(q, outcome, q.quantity, Null,
                   "Please sign in to add items to cart", "Failed to add to cart")

\* increaseQty() of the detail page after its fetch.
DetailIncreaseQtySettled(q, outcome) ==
  /\ BagIn(q, cartReqs) /\ q.kind = "inc"
  /\ DetailSettled(q, outcome, q.quantity, q.oldQty,
                   "Please sign in to continue", "Failed to update quantity")

\* decreaseQty() of the detail page after its fetch.
DetailDecreaseQtySettled(q, outcome) ==
  /\ BagIn(q, cartReqs) /\ q.kind = "dec"
  /\ DetailSettled(q, outcome, IF q.quantity <= 0 THEN Null ELSE q.quantity, q.oldQty,
                   "Please sign in to continue", "Failed to update quantity")

\* The answers loadProduct may see to its cart request.
CartOutcomes == {"ok", "fail", "aborted"}

NextDetail ==
  \/ \E id \in Products : LoadProduct(id)
  \/ \E f \in BagToSet(fetches) : LoadProductAborted(f)
  \/ \E f \in BagToSet(fetches) : LoadProductFailed(f)
  \/ \E f \in BagToSet(fetches) : LoadProductOk(f)
  \/ \E f \in BagToSet(fetches) : ServerCart(f)
  \/ \E f \in BagToSet(fetches), o \in CartOutcomes : LoadProductCart(f, o)
  \/ \E f \in BagToSet(fetches), threw \in BOOLEAN : LoadProductWholesaler(f, threw)
  \/ DetailAddToCart
  \/ DetailIncreaseQty
  \/ DetailDecreaseQty
  \/ \E q \in BagToSet(cartReqs) : ServerCartMutation(q)
  \/ \E q \in BagToSet(cartReqs), o \in Outcomes : DetailAddToCartSettled(q, o)
  \/ \E q \in BagToSet(cartReqs), o \in Outcomes : DetailIncreaseQtySettled(q, o)
  \/ \E q \in BagToSet(cartReqs), o \in Outcomes : DetailDecreaseQtySettled(q, o)

(* ========================= cart page: the model ======================== *)

\* A line of the cart page.
CartItem(product_id, quantity, isQtyLoading) ==
  [product_id |-> product_id, quantity |-> quantity, stock_qty |-> StockQty(product_id),
   isQtyLoading |-> isQtyLoading]

\* items.find((i) => i.product_id === product_id): its index, 0 when absent.
FindItem(items, product_id) ==
  IF \E i \in DOMAIN items : items[i].product_id = product_id
  THEN CHOOSE i \in DOMAIN items : items[i].product_id = product_id
  ELSE 0

\* Assignments to the fields of the line of product_id, if items holds it.
SetItem(items, product_id, quantity, isQtyLoading) ==
  [i \in DOMAIN items |->
     IF items[i].product_id = product_id
     THEN CartItem(product_id, quantity, isQtyLoading)
     ELSE items[i]]

\* items.filter((i) => i.product_id !== product_id)
WithoutItem(items, product_id) ==
  SelectSeq(items, LAMBDA i : i.product_id # product_id)

\* raw.map(...): one line for each row of the cart, in the order of the rows.
ItemsOf(cart) ==
  LET rows == SelectSeq(Catalog, LAMBDA p : cart[p] > 0)
  IN  [i \in DOMAIN rows |-> CartItem(rows[i], cart[rows[i]], FALSE)]

\* The list of lines is rendered.
CartShown ==
  /\ route = "cart"
  /\ ~cartPage.loading
  /\ cartPage.errorMessage = "null"
  /\ cartPage.items # <<>>

\* The line of product_id as the list shows it.
Line(product_id) == cartPage.items[FindItem(cartPage.items, product_id)]

LineShown(product_id) ==
  /\ CartShown
  /\ FindItem(cartPage.items, product_id) # 0

\* A validation request and the answer to it.
ValidateReq(stage, valid, errors) ==
  [kind |-> "validate", stage |-> stage, valid |-> valid, errors |-> errors]

\* Leaving the cart page through goto().  The requests it has in flight
\* stay in flight and their handlers still run: one of them may navigate
\* again, to checkout, which the handlers of the listing and of the detail
\* page never do.
Goto(target) == route' = target

\* loadCart after its fetch: res.status === 401.
LoadCartUnauthorized(f) ==
  /\ route \in CartPageRoutes
  /\ BagIn(f, fetches) /\ f.kind = "cart" /\ f.stage = "sent"
  /\ fetches' = fetches (-) One(f)
  /\ toast' = Toast("error", "Please sign in to view your cart")
  /\ Goto("signin")
  /\ cartPage' = [cartPage EXCEPT !.loading = FALSE]
  /\ UNCHANGED <<ordersVars, formVars, srvCart, wholesalePage, detailPage, cartReqs, reported>>

\* loadCart after its fetch: !res.ok, or the fetch threw.
LoadCartFailed(f) ==
  /\ route \in CartPageRoutes
  /\ BagIn(f, fetches) /\ f.kind = "cart" /\ f.stage = "sent"
  /\ fetches' = fetches (-) One(f)
  /\ cartPage' = [cartPage EXCEPT !.errorMessage = "Failed to load cart",
                                  !.items = <<>>, !.loading = FALSE]
  /\ toast' = NoToast
  /\ UNCHANGED <<route, ordersVars, formVars, srvCart, wholesalePage, detailPage, cartReqs, reported>>

\* loadCart after its fetch: items is the list of the rows of the answer.
LoadCartOk(f) ==
  /\ route \in CartPageRoutes
  /\ BagIn(f, fetches) /\ f.kind = "cart" /\ f.stage = "ok"
  /\ fetches' = fetches (-) One(f)
  /\ cartPage' = [cartPage EXCEPT !.items = ItemsOf(f.cart), !.loading = FALSE]
  /\ toast' = NoToast
  /\ UNCHANGED <<route, ordersVars, formVars, srvCart, wholesalePage, detailPage, cartReqs, reported>>

\* The "-" (delta = -1) or "+" (delta = 1) button of a line is rendered and
\* enabled.
QtyButtonEnabled(product_id, delta) ==
  /\ LineShown(product_id)
  /\ ~Line(product_id).isQtyLoading
  /\ delta = -1 => ~(Line(product_id).quantity <= 1)
  /\ delta = 1 => ~(Line(product_id).quantity >= Line(product_id).stock_qty)

\* modifyQty(product_id, delta) up to its fetch, or to its return at the
\* stock limit.
ModifyQty(product_id, delta) ==
  /\ QtyButtonEnabled(product_id, delta)
  /\ LET item == Line(product_id)
     IN  IF delta > 0 /\ item.quantity + delta > item.stock_qty
         THEN /\ toast' = ToastWith("error",
                                   "Only {stock_qty} available in stock. Cannot add more.",
                                   <<item.stock_qty>>)
              /\ UNCHANGED <<cartPage, cartReqs>>
         ELSE /\ InFlight < MaxInFlight
              /\ cartPage' = [cartPage EXCEPT
                   !.items = SetItem(@, product_id, item.quantity + delta, TRUE)]
              /\ cartReqs' = cartReqs (+)
                   One(CartReq(IF delta > 0 THEN "inc" ELSE "dec", product_id,
                               item.quantity, TRUE, "sent", 0))
              /\ toast' = NoToast
  /\ UNCHANGED <<route, ordersVars, formVars, srvCart, wholesalePage, detailPage, fetches, reported>>

\* modifyQty after its fetch.
ModifyQtySettled(q, outcome) ==
  /\ route \in CartPageRoutes
  /\ BagIn(q, cartReqs) /\ q.kind \in {"inc", "dec"}
  /\ Answered(q, outcome)
  /\ cartReqs' = cartReqs (-) One(q)
  /\ IF outcome = "unauth"
     THEN /\ toast' = Toast("error", "Please sign in to continue")
          /\ Goto("signin")
          /\ UNCHANGED cartPage
     ELSE IF outcome = "ok"
     THEN /\ cartPage' = [cartPage EXCEPT
               !.items = IF q.quantity <= 0
                         THEN WithoutItem(@, q.pid)
                         ELSE SetItem(@, q.pid, q.quantity, FALSE)]
          /\ toast' = NoToast
          /\ UNCHANGED route
     ELSE /\ cartPage' = [cartPage EXCEPT !.items = SetItem(@, q.pid, q.oldQty, FALSE)]
          /\ toast' = Toast("error", "Failed to update quantity")
          /\ UNCHANGED route
  /\ UNCHANGED <<ordersVars, formVars, srvCart, wholesalePage, detailPage, fetches, reported>>

\* deleteItem(product_id) up to its fetch (the delete button is rendered
\* and enabled).
DeleteItem(product_id) ==
  /\ LineShown(product_id)
  /\ ~Line(product_id).isQtyLoading
  /\ InFlight < MaxInFlight
  /\ cartPage' = [cartPage EXCEPT
       !.items = SetItem(@, product_id, Line(product_id).quantity, TRUE)]
  /\ cartReqs' = cartReqs (+)
       One(CartReq("del", product_id, Line(product_id).quantity, TRUE, "sent", 0))
  /\ toast' = NoToast
  /\ UNCHANGED <<route, ordersVars, formVars, srvCart, wholesalePage, detailPage, fetches, reported>>

\* The remote API removes the line of a product and answers OK.
ServerDelete(q) ==
  /\ route \in CartPageRoutes
  /\ BagIn(q, cartReqs) /\ q.kind = "del" /\ q.stage = "sent"
  /\ srvCart[q.pid] > 0
  /\ srvCart' = [srvCart EXCEPT ![q.pid] = 0]
  /\ cartReqs' = (cartReqs (-) One(q)) (+) One([q EXCEPT !.stage = "ok"])
  /\ toast' = NoToast
  /\ UNCHANGED <<route, ordersVars, formVars, wholesalePage, detailPage, cartPage, fetches, reported>>

\* deleteItem after its fetch, removing the line in the catch block too.
DeleteItemSettled_DropsOnFailure(q, outcome) ==
  /\ route \in CartPageRoutes
  /\ BagIn(q, cartReqs) /\ q.kind = "del"
  /\ Answered(q, outcome)
  /\ cartReqs' = cartReqs (-) One(q)
  /\ IF outcome = "unauth"
     THEN /\ toast' = Toast("error", "Please sign in to continue")
          /\ Goto("signin")
          /\ UNCHANGED cartPage
     ELSE IF outcome = "ok"
     THEN /\ cartPage' = [cartPage EXCEPT !.items = WithoutItem(@, q.pid)]
          /\ toast' = Toast("success", "Item removed")
          /\ UNCHANGED route
     ELSE /\ cartPage' = [cartPage EXCEPT !.items = WithoutItem(@, q.pid)]
          /\ toast' = Toast("error", "Failed to remove item")
          /\ UNCHANGED route
  /\ UNCHANGED <<ordersVars, formVars, srvCart, wholesalePage, detailPage, fetches, reported>>

\* deleteItem after its fetch.
DeleteItemSettled(q, outcome) ==
  /\ route \in CartPageRoutes
  /\ BagIn(q, cartReqs) /\ q.kind = "del"
  /\ Answered(q, outcome)
  /\ cartReqs' = cartReqs (-) One(q)
  /\ IF outcome = "unauth"
     THEN /\ toast' = Toast("error", "Please sign in to continue")
          /\ Goto("signin")
          /\ UNCHANGED cartPage
     ELSE IF outcome = "ok"
     THEN /\ cartPage' = [cartPage EXCEPT !.items = WithoutItem(@, q.pid)]
          /\ toast' = Toast("success", "Item removed")
          /\ UNCHANGED route
     ELSE /\ cartPage' = [cartPage EXCEPT
               !.items = IF FindItem(@, q.pid) = 0 THEN @
                         ELSE SetItem(@, q.pid, @[FindItem(@, q.pid)].quantity, FALSE)]
          /\ toast' = Toast("error", "Failed to remove item")
          /\ UNCHANGED route
  /\ UNCHANGED <<ordersVars, formVars, srvCart, wholesalePage, detailPage, fetches, reported>>

\* validateAndProceedToCheckout() up to its fetch ("Proceed to Checkout" is
\* rendered and enabled).
ValidateAndProceedToCheckout ==
  /\ CartShown
  /\ ~cartPage.validatingStock
  /\ InFlight < MaxInFlight
  /\ cartPage' = [cartPage EXCEPT !.validatingStock = TRUE]
  /\ fetches' = fetches (+) One(ValidateReq("sent", FALSE, <<>>))
  /\ toast' = NoToast
  /\ UNCHANGED <<route, ordersVars, formVars, srvCart, wholesalePage, detailPage, cartReqs, reported>>

\* The shortfall records of a cart: one for each line that asks for more
\* than the stock of its product.
Shortfalls(cart) ==
  LET short == SelectSeq(Catalog, LAMBDA p : cart[p] > StockQty(p))
  IN  [i \in DOMAIN short |->
         [product_name |-> short[i], available |-> StockQty(short[i]),
          requested |-> cart[short[i]]]]

\* The remote API answers a validation request: {valid, errors?}, with or
\* without the list of shortfall records.
ServerValidate(f, listed) ==
  /\ route \in CartPageRoutes
  /\ BagIn(f, fetches) /\ f.kind = "validate" /\ f.stage = "sent"
  /\ fetches' = (fetches (-) One(f)) (+)
                One(ValidateReq("ok", Shortfalls(srvCart) = <<>>,
                                IF listed THEN Shortfalls(srvCart) ELSE <<>>))
  /\ toast' = NoToast
  /\ UNCHANGED <<route, ordersVars, formVars, srvCart, wholesalePage, detailPage, cartPage, cartReqs,
                 reported>>

\* The notification for an answer that is not valid, with the requested
\* amount in the place of the available one and the reverse.
InsufficientStock_Swapped(errors) ==
  IF Len(errors) > 0
  THEN IF Len(errors) = 1
       THEN ToastWith("error",
                      "{product_name}: Only {available} available (requested: {requested})",
                      <<errors[1].product_name, errors[1].requested, errors[1].available>>)
       ELSE ToastWith("error",
                      "{product_name} and {n} other item(s) have insufficient stock. Please update your cart.",
                      <<errors[1].product_name, Len(errors) - 1>>)
  ELSE Toast("error", "Some items have insufficient stock. Please update your cart.")

\* The notification for an answer that is not valid.
InsufficientStock(errors) ==
  IF Len(errors) > 0
  THEN IF Len(errors) = 1
       THEN ToastWith("error",
                      "{product_name}: Only {available} available (requested: {requested})",
                      <<errors[1].product_name, errors[1].available, errors[1].requested>>)
       ELSE ToastWith("error",
                      "{product_name} and {n} other item(s) have insufficient stock. Please update your cart.",
                      <<errors[1].product_name, Len(errors) - 1>>)
  ELSE Toast("error", "Some items have insufficient stock. Please update your cart.")

\* The answers validateAndProceedToCheckout may see: the answer of the
\* remote API, 401, a fetch or a body that throws, or an answer whose body
\* has no valid field.
ValidateOutcomes == {"ok", "unauth", "fail", "novalid"}

\* validateAndProceedToCheckout after its fetch, going to checkout after
\* the notification for an answer that is not valid.
ValidateSettled_ProceedsWhenInvalid(f, outcome) ==
  /\ route \in CartPageRoutes
  /\ BagIn(f, fetches) /\ f.kind = "validate"
  /\ Answered(f, outcome)
  /\ fetches' = fetches (-) One(f)
  /\ cartPage' = [cartPage EXCEPT !.validatingStock = FALSE]
  /\ IF outcome = "unauth"
     THEN /\ toast' = Toast("error", "Please sign in to continue")
          /\ Goto("signin")
     ELSE IF outcome = "fail"
     THEN /\ toast' = Toast("error", "Failed to validate cart. Please try again.")
          /\ UNCHANGED route
     ELSE IF outcome = "novalid"
     THEN /\ toast' = InsufficientStock(<<>>)
          /\ UNCHANGED route
     ELSE /\ toast' = IF f.valid THEN NoToast ELSE InsufficientStock(f.errors)
          /\ Goto("checkout")
  /\ UNCHANGED <<ordersVars, formVars, srvCart, wholesalePage, detailPage, cartReqs, reported>>

\* validateAndProceedToCheckout after its fetch, and its finally block.
ValidateSettled(f, outcome) ==
  /\ route \in CartPageRoutes
  /\ BagIn(f, fetches) /\ f.kind = "validate"
  /\ Answered(f, outcome)
  /\ fetches' = fetches (-) One(f)
  /\ cartPage' = [cartPage EXCEPT !.validatingStock = FALSE]
  /\ IF outcome = "unauth"
     THEN /\ toast' = Toast("error", "Please sign in to continue")
          /\ Goto("signin")
     ELSE IF outcome = "fail"
     THEN /\ toast' = Toast("error", "Failed to validate cart. Please try again.")
          /\ UNCHANGED route
     ELSE IF outcome = "novalid"
     THEN /\ toast' = InsufficientStock(<<>>)
          /\ UNCHANGED route
     ELSE IF ~f.valid
     THEN /\ toast' = InsufficientStock(f.errors)
          /\ UNCHANGED route
     ELSE /\ toast' = NoToast
          /\ Goto("checkout")
  /\ UNCHANGED <<ordersVars, formVars, srvCart, wholesalePage, detailPage, cartReqs, reported>>

NextCart ==
  \/ \E f \in BagToSet(fetches) : ServerCart(f)
  \/ \E f \in BagToSet(fetches) : LoadCartUnauthorized(f)
  \/ \E f \in BagToSet(fetches) : LoadCartFailed(f)
  \/ \E f \in BagToSet(fetches) : LoadCartOk(f)
  \/ \E p \in Products, delta \in {-1, 1} : ModifyQty(p, delta)
  \/ \E p \in Products : DeleteItem(p)
  \/ ValidateAndProceedToCheckout
  \/ \E q \in BagToSet(cartReqs) : ServerCartMutation(q)
  \/ \E q \in BagToSet(cartReqs) : ServerDelete(q)
  \/ \E f \in BagToSet(fetches), listed \in BOOLEAN : ServerValidate(f, listed)
  \/ \E q \in BagToSet(cartReqs), o \in Outcomes : ModifyQtySettled(q, o)
  \/ \E q \in BagToSet(cartReqs), o \in Outcomes : DeleteItemSettled(q, o)
  \/ \E f \in BagToSet(fetches), o \in ValidateOutcomes : ValidateSettled(f, o)

\* The carts the remote API may hold when the cart page is opened: the
\* stock of a product may have gone down since its line was added.
MaxStock == CHOOSE n \in {StockQty(p) : p \in Products} : \A p \in Products : StockQty(p) <= n

CartPageCarts ==
  {c \in [Products -> 0..(MaxStock + Overdraw)] :
     \A p \in Products : c[p] <= StockQty(p) + Overdraw}

\* The cart page after construction: onMount has called loadCart().
InitCartPage ==
  cartPage = [loading |-> TRUE, errorMessage |-> "null", items |-> <<>>,
              validatingStock |-> FALSE]

(* ======================= checkout page: the model ====================== *)

\* A request of the pages below and the handler waiting for its answer:
\* stage "sent", or "ok" once the remote API has answered it with data.
Req(kind, stage, data) == [kind |-> kind, stage |-> stage, data |-> data]

\* No data
NoData == <<>>

PaymentMethods == {"online", "offline"}

\* raw.map(...) of the checkout page: one line for each row of the cart.
CheckoutItemsOf(cart) ==
  LET rows == SelectSeq(Catalog, LAMBDA p : cart[p] > 0)
  IN  [i \in DOMAIN rows |-> [product_id |-> rows[i], quantity |-> cart[rows[i]]]]

\* The checkout page is mounted, or was left through goto() with its
\* request in flight.
CheckoutRoutes == {"checkout", "cart", "signin"}

\* The pages below leave the variables of the pages above alone.
UnchangedAbove == UNCHANGED <<ordersVars, wholesalePage, detailPage, cartPage, cartReqs,
                              fetches, reported>>

\* The remote API answers the cart request of the checkout page.
ServerCheckoutCart(r) ==
  /\ route \in CheckoutRoutes
  /\ BagIn(r, requests) /\ r.kind = "checkoutCart" /\ r.stage = "sent"
  /\ requests' = (requests (-) One(r)) (+) One(Req("checkoutCart", "ok", srvCart))
  /\ toast' = NoToast
  /\ UnchangedAbove
  /\ UNCHANGED <<route, srvCart, srvProfile, srvQueries, checkoutPage, dashboardPage,
                 onboardingPage, queriesPage, inventoryPage>>

\* loadCart of the checkout page after its fetch.
CheckoutLoadCart(r, outcome) ==
  /\ route \in CheckoutRoutes
  /\ BagIn(r, requests) /\ r.kind = "checkoutCart"
  /\ Answered(r, outcome)
  /\ requests' = requests (-) One(r)
  /\ IF outcome = "unauth"
     THEN /\ toast' = Toast("error", "Please sign in to view your cart")
          /\ Goto("signin")
          /\ checkoutPage' = [checkoutPage EXCEPT !.loadingCart = FALSE]
     ELSE IF outcome = "ok"
     THEN /\ checkoutPage' = [checkoutPage EXCEPT !.cartItems = CheckoutItemsOf(r.data),
                                                  !.loadingCart = FALSE]
          /\ IF CheckoutItemsOf(r.data) = <<>>
             THEN toast' = Toast("error", "Your cart is empty") /\ Goto("cart")
             ELSE toast' = NoToast /\ UNCHANGED route
     ELSE /\ toast' = Toast("error", "Failed to load cart")
          /\ Goto("cart")
          /\ checkoutPage' = [checkoutPage EXCEPT !.loadingCart = FALSE]
  /\ UnchangedAbove
  /\ UNCHANGED <<srvCart, srvProfile, srvQueries, dashboardPage, onboardingPage, queriesPage,
                 inventoryPage>>

\* The radio buttons of the payment method (bind:group={paymentMethod}):
\* rendered while the success state is not shown, never disabled.
SelectPaymentMethod(method) ==
  /\ route = "checkout"
  /\ ~checkoutPage.orderPlaced
  /\ method # checkoutPage.paymentMethod
  /\ checkoutPage' = [checkoutPage EXCEPT !.paymentMethod = method]
  /\ toast' = NoToast
  /\ UnchangedAbove
  /\ UNCHANGED <<route, srvCart, srvProfile, srvQueries, requests, dashboardPage,
                 onboardingPage, queriesPage, inventoryPage>>

\* Place Order enabled while a request is in flight.
PlaceOrderEnabled_WhilePlacing ==
  /\ route = "checkout"
  /\ ~checkoutPage.orderPlaced
  /\ Len(checkoutPage.cartItems) # 0
  /\ BagCardinality(requests) < MaxInFlight

\* Place Order is rendered and enabled:
\* disabled={placingOrder || cartItems.length === 0}
PlaceOrderEnabled ==
  /\ route = "checkout"
  /\ ~checkoutPage.orderPlaced
  /\ ~(checkoutPage.placingOrder \/ Len(checkoutPage.cartItems) = 0)

\* handlePlaceOrder() up to its fetch; the body carries paymentMethod.
HandlePlaceOrder ==
  /\ PlaceOrderEnabled
  /\ checkoutPage' = [checkoutPage EXCEPT !.placingOrder = TRUE]
  /\ requests' = requests (+)
       One(Req("checkout", "sent",
               [payment_method |-> checkoutPage.paymentMethod, session_url |-> FALSE]))
  /\ toast' = NoToast
  /\ UnchangedAbove
  /\ UNCHANGED <<route, srvCart, srvProfile, srvQueries, dashboardPage, onboardingPage,
                 queriesPage, inventoryPage>>

\* The remote API accepts the order; for an online payment its answer has
\* the URL of a payment session.
ServerCheckout(r) ==
  /\ route \in CheckoutRoutes
  /\ BagIn(r, requests) /\ r.kind = "checkout" /\ r.stage = "sent"
  /\ requests' = (requests (-) One(r)) (+)
       One(Req("checkout", "ok",
               [r.data EXCEPT !.session_url = (r.data.payment_method = "online")]))
  /\ toast' = NoToast
  /\ UnchangedAbove
  /\ UNCHANGED <<route, srvCart, srvProfile, srvQueries, checkoutPage, dashboardPage,
                 onboardingPage, queriesPage, inventoryPage>>

\* handlePlaceOrder() after its fetch.  A 401 is an answer that is not OK.
\* paymentMethod is read here, after the await.  window.location.href
\* unloads the page, and with it its handlers.
HandlePlaceOrderSettled(r, outcome) ==
  /\ route \in CheckoutRoutes
  /\ BagIn(r, requests) /\ r.kind = "checkout"
  /\ Answered(r, outcome)
  /\ IF outcome = "ok"
     THEN IF checkoutPage.paymentMethod = "online" /\ r.data.session_url
          THEN /\ route' = "payment"
               /\ requests' = EmptyBag
               /\ checkoutPage' = [checkoutPage EXCEPT !.placingOrder = FALSE]
               /\ toast' = NoToast
          ELSE /\ requests' = requests (-) One(r)
               /\ checkoutPage' = [checkoutPage EXCEPT !.orderPlaced = TRUE,
                                                       !.placingOrder = FALSE]
               /\ toast' = Toast("success", "Order placed successfully!")
               /\ UNCHANGED route
     ELSE /\ requests' = requests (-) One(r)
          /\ checkoutPage' = [checkoutPage EXCEPT !.placingOrder = FALSE]
          /\ toast' = Toast("error", "Failed to place order")
          /\ UNCHANGED route
  /\ UnchangedAbove
  /\ UNCHANGED <<srvCart, srvProfile, srvQueries, dashboardPage, onboardingPage, queriesPage,
                 inventoryPage>>

NextCheckout ==
  \/ \E r \in BagToSet(requests) : ServerCheckoutCart(r)
  \/ \E r \in BagToSet(requests), o \in Outcomes : CheckoutLoadCart(r, o)
  \/ \E m \in PaymentMethods : SelectPaymentMethod(m)
  \/ HandlePlaceOrder
  \/ \E r \in BagToSet(requests) : ServerCheckout(r)
  \/ \E r \in BagToSet(requests), o \in Outcomes : HandlePlaceOrderSettled(r, o)

\* The checkout page after construction; onMount(loadCart).
InitCheckoutPage ==
  checkoutPage = [loadingCart |-> TRUE, cartItems |-> <<>>, placingOrder |-> FALSE,
                  paymentMethod |-> "online", orderPlaced |-> FALSE]

(* ================== text of the form fields: the model ================= *)

\* A text is a sequence of characters.
Whitespace == {" "}
Digits == {"0", "1", "2", "3", "4", "5", "6", "7", "8", "9"}

\* String.prototype.trim()
RECURSIVE TrimStart(_)
TrimStart(s) ==
  IF s # <<>> /\ Head(s) \in Whitespace THEN TrimStart(Tail(s)) ELSE s

RECURSIVE TrimEnd(_)
TrimEnd(s) ==
  IF s # <<>> /\ s[Len(s)] \in Whitespace THEN TrimEnd(SubSeq(s, 1, Len(s) - 1)) ELSE s

Trim(s) == TrimEnd(TrimStart(s))

\* s.startsWith(prefix)
StartsWith(s, prefix) ==
  Len(s) >= Len(prefix) /\ SubSeq(s, 1, Len(prefix)) = prefix

\* n copies of the character c.
Repeat(c, n) == [i \in 1..n |-> c]

\* The texts of length n over the characters of set S.
TextsOf(S, n) == [1..n -> S]

(* ================= dashboard and onboarding: the model ================== *)

\* value.replace(/[^0-9+\-\s]/g, '')
AllowedPhoneChars == Digits \cup {"+", "-"} \cup Whitespace

\* handlePhoneInput: the text the phone field keeps of the typed value.
Allowed(value) == SelectSeq(value, LAMBDA c : c \in AllowedPhoneChars)

\* sanitizePhone that strips a leading 0 whatever the number of digits.
SanitizePhone_StripsAnyLeadingZero(phoneNumber) ==
  LET digitsOnly == SelectSeq(phoneNumber, LAMBDA c : c \in Digits)
  IN  IF Len(digitsOnly) = 12 /\ StartsWith(digitsOnly, <<"9", "1">>)
      THEN SubSeq(digitsOnly, 3, Len(digitsOnly))
      ELSE IF StartsWith(digitsOnly, <<"0">>)
      THEN SubSeq(digitsOnly, 2, Len(digitsOnly))
      ELSE digitsOnly

\* sanitizePhone(phoneNumber)
SanitizePhone(phoneNumber) ==
  LET digitsOnly == SelectSeq(phoneNumber, LAMBDA c : c \in Digits)
  IN  IF Len(digitsOnly) = 12 /\ StartsWith(digitsOnly, <<"9", "1">>)
      THEN SubSeq(digitsOnly, 3, Len(digitsOnly))
      ELSE IF Len(digitsOnly) = 11 /\ StartsWith(digitsOnly, <<"0">>)
      THEN SubSeq(digitsOnly, 2, Len(digitsOnly))
      ELSE digitsOnly

\* sanitized.length === 10
PhoneDigits == 10

\* validatePhone(phoneNumber)
ValidatePhone(phoneNumber) == Len(SanitizePhone(phoneNumber)) = PhoneDigits

\* The values typed into the phone field: a blank, and up to MaxPrefix
\* characters followed by PhoneDigits - 1 or PhoneDigits digits 7.
PhoneChars == {"9", "1", "0", "+", "x"}
PhoneInputs ==
  {<<" ">>} \cup
  {pre \o Repeat("7", k) :
     pre \in UNION {TextsOf(PhoneChars, n) : n \in 0..MaxPrefix},
     k \in (PhoneDigits - 1)..PhoneDigits}

\* The values typed into the other text fields.
TextInputs == {<<>>, <<" ">>, <<"a", " ">>}

\* The profile the remote API holds: data.onboarded and data.retailer.
NoRetailer == [present |-> FALSE, business_name |-> <<>>, phone |-> <<>>, address |-> <<>>]
StoredRetailer ==
  [present |-> TRUE, business_name |-> <<"a">>, phone |-> <<"+", "9", "1">> \o Repeat("7", PhoneDigits),
   address |-> <<>>]
Profiles ==
  {[onboarded |-> FALSE, retailer |-> NoRetailer],
   [onboarded |-> FALSE, retailer |-> StoredRetailer],
   [onboarded |-> TRUE, retailer |-> StoredRetailer]}

\* The dashboard after construction.
NewDashboardPage == [checking |-> TRUE, showDashboard |-> FALSE, hasRedirected |-> FALSE]

\* The onboarding page after construction.
NewOnboardingPage ==
  [businessName |-> <<>>, phone |-> <<>>, address |-> <<>>,
   loading |-> FALSE, fetching |-> TRUE, redirecting |-> FALSE]

\* goto('/dashboard'): the dashboard is constructed and mounted, onMount
\* sends its request (hasRedirected is false).
GotoDashboard(B) ==
  /\ route' = "dashboard"
  /\ dashboardPage' = NewDashboardPage
  /\ requests' = B (+) One(Req("dashboardMe", "sent", NoData))

\* goto('/onboarding'): the onboarding page is constructed and mounted.
GotoOnboarding(B) ==
  /\ route' = "onboarding"
  /\ onboardingPage' = NewOnboardingPage
  /\ requests' = B (+) One(Req("onboardingMe", "sent", NoData))

\* The remote API answers GET /api/retailers/me with the profile.
ServerMe(r) ==
  /\ route \in {"dashboard", "onboarding"}
  /\ BagIn(r, requests) /\ r.kind \in {"dashboardMe", "onboardingMe"} /\ r.stage = "sent"
  /\ requests' = (requests (-) One(r)) (+) One(Req(r.kind, "ok", srvProfile))
  /\ toast' = NoToast
  /\ UnchangedAbove
  /\ UNCHANGED <<route, srvCart, srvProfile, srvQueries, checkoutPage, dashboardPage,
                 onboardingPage, queriesPage, inventoryPage>>

\* The dashboard's check showing the dashboard for every OK answer.
DashboardChecked_IgnoresOnboarded(r, outcome) ==
  /\ route = "dashboard"
  /\ BagIn(r, requests) /\ r.kind = "dashboardMe"
  /\ Answered(r, outcome)
  /\ IF outcome = "ok"
     THEN /\ dashboardPage' = [dashboardPage EXCEPT !.showDashboard = TRUE,
                                                    !.checking = FALSE]
          /\ requests' = requests (-) One(r)
          /\ toast' = NoToast
          /\ UNCHANGED <<route, onboardingPage>>
     ELSE /\ toast' = Toast("error", IF outcome = "unauth"
                                     THEN "Please sign in to access the dashboard"
                                     ELSE "Failed to verify authentication. Please try again.")
          /\ dashboardPage' = [dashboardPage EXCEPT !.hasRedirected = TRUE,
                                                    !.checking = FALSE]
          /\ route' = "signin"
          /\ requests' = requests (-) One(r)
          /\ UNCHANGED onboardingPage
  /\ UnchangedAbove
  /\ UNCHANGED <<srvCart, srvProfile, srvQueries, checkoutPage, queriesPage, inventoryPage>>

\* onMount of the dashboard after its fetch.
DashboardChecked(r, outcome) ==
  /\ route = "dashboard"
  /\ BagIn(r, requests) /\ r.kind = "dashboardMe"
  /\ Answered(r, outcome)
  /\ IF outcome = "unauth"
     THEN /\ IF ~dashboardPage.hasRedirected
             THEN /\ toast' = Toast("error", "Please sign in to access the dashboard")
                  /\ dashboardPage' = [dashboardPage EXCEPT !.hasRedirected = TRUE,
                                                            !.checking = FALSE]
                  /\ route' = "signin"
             ELSE /\ toast' = NoToast
                  /\ dashboardPage' = [dashboardPage EXCEPT !.checking = FALSE]
                  /\ UNCHANGED route
          /\ requests' = requests (-) One(r)
          /\ UNCHANGED onboardingPage
     ELSE IF outcome = "fail"
     THEN /\ toast' = Toast("error", "Failed to verify authentication. Please try again.")
          /\ IF ~dashboardPage.hasRedirected
             THEN /\ dashboardPage' = [dashboardPage EXCEPT !.hasRedirected = TRUE,
                                                            !.checking = FALSE]
                  /\ route' = "signin"
             ELSE /\ dashboardPage' = [dashboardPage EXCEPT !.checking = FALSE]
                  /\ UNCHANGED route
          /\ requests' = requests (-) One(r)
          /\ UNCHANGED onboardingPage
     ELSE IF ~r.data.onboarded
     THEN /\ toast' = NoToast
          /\ IF ~dashboardPage.hasRedirected
             THEN /\ dashboardPage' = [dashboardPage EXCEPT !.hasRedirected = TRUE,
                                                            !.checking = FALSE]
                  /\ GotoOnboarding(requests (-) One(r))
             ELSE /\ dashboardPage' = [dashboardPage EXCEPT !.checking = FALSE]
                  /\ requests' = requests (-) One(r)
                  /\ UNCHANGED <<route, onboardingPage>>
     ELSE /\ toast' = NoToast
          /\ dashboardPage' = [dashboardPage EXCEPT !.showDashboard = TRUE,
                                                    !.checking = FALSE]
          /\ requests' = requests (-) One(r)
          /\ UNCHANGED <<route, onboardingPage>>
  /\ UnchangedAbove
  /\ UNCHANGED <<srvCart, srvProfile, srvQueries, checkoutPage, queriesPage, inventoryPage>>

\* The dashboard content is rendered: {#if checking} ... {:else if showDashboard}
DashboardShown ==
  /\ route = "dashboard"
  /\ ~dashboardPage.checking
  /\ dashboardPage.showDashboard

\* onMount of the onboarding page after its fetch.  window.location.href
\* unloads the page, and with it its handlers.
OnboardingMounted(r, outcome) ==
  /\ route = "onboarding"
  /\ BagIn(r, requests) /\ r.kind = "onboardingMe"
  /\ Answered(r, outcome)
  /\ IF outcome = "unauth"
     THEN /\ toast' = Toast("error", "Please sign in to access the onboarding page")
          /\ route' = "signin"
          /\ requests' = EmptyBag
          /\ onboardingPage' = [onboardingPage EXCEPT !.fetching = FALSE]
          /\ UNCHANGED dashboardPage
     ELSE IF outcome = "fail"
     THEN /\ toast' = Toast("error", "Failed to load profile")
          /\ requests' = requests (-) One(r)
          /\ onboardingPage' = [onboardingPage EXCEPT !.fetching = FALSE]
          /\ UNCHANGED <<route, dashboardPage>>
     ELSE IF r.data.onboarded
     THEN /\ toast' = NoToast
          /\ onboardingPage' = [onboardingPage EXCEPT !.redirecting = TRUE,
                                                      !.fetching = FALSE]
          /\ GotoDashboard(requests (-) One(r))
     ELSE /\ toast' = NoToast
          /\ requests' = requests (-) One(r)
          /\ onboardingPage' =
               IF r.data.retailer.present
               THEN [onboardingPage EXCEPT !.businessName = r.data.retailer.business_name,
                                           !.phone = r.data.retailer.phone,
                                           !.address = r.data.retailer.address,
                                           !.fetching = FALSE]
               ELSE [onboardingPage EXCEPT !.fetching = FALSE]
          /\ UNCHANGED <<route, dashboardPage>>
  /\ UnchangedAbove
  /\ UNCHANGED <<srvCart, srvProfile, srvQueries, checkoutPage, queriesPage, inventoryPage>>

\* The form of the onboarding page is rendered and its fields and button
\* are enabled: {#if fetching || redirecting} ... {:else}, disabled={loading}
OnboardingFormEnabled ==
  /\ route = "onboarding"
  /\ ~(onboardingPage.fetching \/ onboardingPage.redirecting)
  /\ ~onboardingPage.loading

\* Typing into a field of the onboarding form; the phone field keeps what
\* handlePhoneInput allows.
OnboardingTyped(page) ==
  /\ OnboardingFormEnabled
  /\ page # onboardingPage
  /\ onboardingPage' = page
  /\ toast' = NoToast
  /\ UnchangedAbove
  /\ UNCHANGED <<route, srvCart, srvProfile, srvQueries, requests, checkoutPage,
                 dashboardPage, queriesPage, inventoryPage>>

TypeBusinessName(value) == OnboardingTyped([onboardingPage EXCEPT !.businessName = value])
HandlePhoneInput(value) == OnboardingTyped([onboardingPage EXCEPT !.phone = Allowed(value)])
TypeAddress(value) == OnboardingTyped([onboardingPage EXCEPT !.address = value])

\* handleSubmit() of the onboarding page: the message of the check that
\* fails, "" when none does.
OnboardingRejects(page) ==
  IF Trim(page.businessName) = <<>> \/ Trim(page.phone) = <<>> \/ Trim(page.address) = <<>>
  THEN "Please fill in all fields"
  ELSE IF ~ValidatePhone(Trim(page.phone))
  THEN "Please enter a valid 10-digit Indian phone number"
  ELSE ""

\* handleSubmit() of the onboarding page up to its fetch, or to the return
\* of a check that fails.
OnboardingSubmit ==
  /\ OnboardingFormEnabled
  /\ IF OnboardingRejects(onboardingPage) # ""
     THEN /\ toast' = Toast("error", OnboardingRejects(onboardingPage))
          /\ UNCHANGED <<onboardingPage, requests>>
     ELSE /\ onboardingPage' = [onboardingPage EXCEPT !.loading = TRUE]
          /\ requests' = requests (+)
               One(Req("profile", "sent",
                       [business_name |-> Trim(onboardingPage.businessName),
                        phone |-> SanitizePhone(onboardingPage.phone),
                        address |-> Trim(onboardingPage.address),
                        onboarded |-> FALSE]))
          /\ toast' = NoToast
  /\ UnchangedAbove
  /\ UNCHANGED <<route, srvCart, srvProfile, srvQueries, checkoutPage, dashboardPage,
                 queriesPage, inventoryPage>>

\* The remote API stores the profile; its answer says whether the retailer
\* is onboarded now.
ServerProfile(r, onboarded) ==
  /\ route = "onboarding"
  /\ BagIn(r, requests) /\ r.kind = "profile" /\ r.stage = "sent"
  /\ requests' = (requests (-) One(r)) (+)
       One(Req("profile", "ok", [r.data EXCEPT !.onboarded = onboarded]))
  /\ srvProfile' = [srvProfile EXCEPT !.onboarded = onboarded]
  /\ toast' = NoToast
  /\ UnchangedAbove
  /\ UNCHANGED <<route, srvCart, srvQueries, checkoutPage, dashboardPage, onboardingPage,
                 queriesPage, inventoryPage>>

\* handleSubmit() of the onboarding page after its fetch; setTimeout(...,
\* 500) is a request of kind "timeout".
OnboardingSubmitted(r, outcome) ==
  /\ route = "onboarding"
  /\ BagIn(r, requests) /\ r.kind = "profile"
  /\ Answered(r, outcome)
  /\ onboardingPage' =
       [onboardingPage EXCEPT !.loading = FALSE,
                              !.redirecting = @ \/ (outcome = "ok" /\ r.data.onboarded)]
  /\ IF outcome = "unauth"
     THEN /\ route' = "signin"
          /\ requests' = EmptyBag
          /\ toast' = NoToast
     ELSE IF outcome = "fail"
     THEN /\ requests' = requests (-) One(r)
          /\ toast' = Toast("error", "Failed to update profile")
          /\ UNCHANGED route
     ELSE IF r.data.onboarded
     THEN /\ requests' = (requests (-) One(r)) (+) One(Req("timeout", "sent", NoData))
          /\ toast' = Toast("success", "Profile completed successfully!")
          /\ UNCHANGED route
     ELSE /\ requests' = requests (-) One(r)
          /\ toast' = NoToast
          /\ UNCHANGED route
  /\ UnchangedAbove
  /\ UNCHANGED <<srvCart, srvProfile, srvQueries, checkoutPage, dashboardPage, queriesPage,
                 inventoryPage>>

\* The callback of setTimeout: goto('/dashboard').
OnboardingTimeout(r) ==
  /\ route = "onboarding"
  /\ BagIn(r, requests) /\ r.kind = "timeout"
  /\ GotoDashboard(requests (-) One(r))
  /\ toast' = NoToast
  /\ UnchangedAbove
  /\ UNCHANGED <<srvCart, srvProfile, srvQueries, checkoutPage, onboardingPage, queriesPage,
                 inventoryPage>>

NextProfile ==
  \/ \E r \in BagToSet(requests) : ServerMe(r)
  \/ \E r \in BagToSet(requests), o \in Outcomes : DashboardChecked(r, o)
  \/ \E r \in BagToSet(requests), o \in Outcomes : OnboardingMounted(r, o)
  \/ \E v \in TextInputs : TypeBusinessName(v)
  \/ \E v \in PhoneInputs : HandlePhoneInput(v)
  \/ \E v \in TextInputs : TypeAddress(v)
  \/ OnboardingSubmit
  \/ \E r \in BagToSet(requests), onboarded \in BOOLEAN : ServerProfile(r, onboarded)
  \/ \E r \in BagToSet(requests), o \in Outcomes : OnboardingSubmitted(r, o)
  \/ \E r \in BagToSet(requests) : OnboardingTimeout(r)

(* ========================= queries page: the model ====================== *)

\* The queries the remote API holds; each is resolved or not.
QueryIds == 1..NumQueries

\* data.queries of GET /api/retailer/queries
QueryList(resolved) == [i \in QueryIds |-> [id |-> i, is_resolved |-> resolved[i]]]

\* The queries page after construction.
NewQueriesPage ==
  [loading |-> TRUE, queries |-> <<>>, errorMessage |-> "null",
   resolvingQueryId |-> Null, showResolveForm |-> Null, resolveResponse |-> <<>>]

\* The list of queries is rendered: {#if loading} ... {:else if errorMessage}
\* ... {:else}
QueriesShown ==
  /\ route = "queries"
  /\ ~queriesPage.loading
  /\ queriesPage.errorMessage = "null"

\* unresolvedQueries
Unresolved(id) ==
  \E i \in DOMAIN queriesPage.queries :
    queriesPage.queries[i].id = id /\ ~queriesPage.queries[i].is_resolved

\* The response form of query id is rendered.
ResolveFormShown(id) ==
  /\ QueriesShown
  /\ Unresolved(id)
  /\ queriesPage.showResolveForm = id

\* loadQueries() up to its fetch; resumes tells that handleResolve awaits
\* the call.
LoadQueries(page, resumes) ==
  /\ queriesPage' = [page EXCEPT !.loading = TRUE, !.errorMessage = "null"]
  /\ requests' = requests (+) One(Req("queries", "sent", [resumes |-> resumes, queries |-> <<>>]))

\* The Retry button.
RetryQueries ==
  /\ route = "queries"
  /\ ~queriesPage.loading
  /\ queriesPage.errorMessage # "null"
  /\ LoadQueries(queriesPage, FALSE)
  /\ toast' = NoToast
  /\ UnchangedAbove
  /\ UNCHANGED <<route, srvCart, srvProfile, srvQueries, checkoutPage, dashboardPage,
                 onboardingPage, inventoryPage>>

\* The remote API answers GET /api/retailer/queries.
ServerQueries(r) ==
  /\ route = "queries"
  /\ BagIn(r, requests) /\ r.kind = "queries" /\ r.stage = "sent"
  /\ requests' = (requests (-) One(r)) (+)
       One(Req("queries", "ok", [r.data EXCEPT !.queries = QueryList(srvQueries)]))
  /\ toast' = NoToast
  /\ UnchangedAbove
  /\ UNCHANGED <<route, srvCart, srvProfile, srvQueries, checkoutPage, dashboardPage,
                 onboardingPage, queriesPage, inventoryPage>>

\* loadQueries() after its fetch, and then the rest of the handleResolve
\* that awaits it: finally { resolvingQueryId = null }.
QueriesLoaded(r, outcome) ==
  /\ route = "queries"
  /\ BagIn(r, requests) /\ r.kind = "queries"
  /\ Answered(r, outcome)
  /\ LET resumed == IF r.data.resumes
                    THEN [queriesPage EXCEPT !.resolvingQueryId = Null]
                    ELSE queriesPage
     IN  IF outcome = "unauth"
         THEN /\ toast' = Toast("error", "Please sign in to continue")
              /\ route' = "signin"
              /\ requests' = EmptyBag
              /\ queriesPage' = [resumed EXCEPT !.loading = FALSE]
         ELSE IF outcome = "fail"
         THEN /\ toast' = NoToast
              /\ requests' = requests (-) One(r)
              /\ queriesPage' = [resumed EXCEPT !.loading = FALSE,
                                                !.errorMessage = "Failed to load queries"]
              /\ UNCHANGED route
         ELSE /\ toast' = NoToast
              /\ requests' = requests (-) One(r)
              /\ queriesPage' = [resumed EXCEPT !.loading = FALSE,
                                                !.queries = r.data.queries]
              /\ UNCHANGED route
  /\ UnchangedAbove
  /\ UNCHANGED <<srvCart, srvProfile, srvQueries, checkoutPage, dashboardPage,
                 onboardingPage, inventoryPage>>

\* openResolveForm(queryId): the Respond button, disabled={resolvingQueryId
\* !== null}
OpenResolveForm(queryId) ==
  /\ QueriesShown
  /\ Unresolved(queryId)
  /\ queriesPage.showResolveForm # queryId
  /\ queriesPage.resolvingQueryId = Null
  /\ queriesPage' = [queriesPage EXCEPT !.showResolveForm = queryId,
                                        !.resolveResponse = <<>>]
  /\ toast' = NoToast
  /\ UnchangedAbove
  /\ UNCHANGED <<route, srvCart, srvProfile, srvQueries, requests, checkoutPage,
                 dashboardPage, onboardingPage, inventoryPage>>

\* cancelResolve(): the Cancel button of the form.
CancelResolve ==
  /\ \E id \in QueryIds : ResolveFormShown(id)
  /\ queriesPage' = [queriesPage EXCEPT !.showResolveForm = Null,
                                        !.resolveResponse = <<>>]
  /\ toast' = NoToast
  /\ UnchangedAbove
  /\ UNCHANGED <<route, srvCart, srvProfile, srvQueries, requests, checkoutPage,
                 dashboardPage, onboardingPage, inventoryPage>>

\* Typing into the textarea of the form: bind:value={resolveResponse}
TypeResponse(value) ==
  /\ \E id \in QueryIds : ResolveFormShown(id)
  /\ value # queriesPage.resolveResponse
  /\ queriesPage' = [queriesPage EXCEPT !.resolveResponse = value]
  /\ toast' = NoToast
  /\ UnchangedAbove
  /\ UNCHANGED <<route, srvCart, srvProfile, srvQueries, requests, checkoutPage,
                 dashboardPage, onboardingPage, inventoryPage>>

\* The Submit Response button of the form enabled while a resolve is in
\* flight.
SubmitEnabled_WhileResolving(queryId) ==
  /\ ResolveFormShown(queryId)
  /\ BagCardinality(requests) < MaxInFlight

\* The Submit Response button of the form of query queryId is rendered
\* and enabled: disabled={resolvingQueryId === query.id}
SubmitEnabled(queryId) ==
  /\ ResolveFormShown(queryId)
  /\ queriesPage.resolvingQueryId # queryId

\* handleResolve(queryId): the check of the draft fails.
ResolveRejects(response) == Trim(response) = <<>>

\* handleResolve(queryId) up to its fetch, or to the return of the check.
HandleResolve(queryId) ==
  /\ SubmitEnabled(queryId)
  /\ IF ResolveRejects(queriesPage.resolveResponse)
     THEN /\ toast' = Toast("error", "Please enter a response")
          /\ UNCHANGED <<queriesPage, requests>>
     ELSE /\ queriesPage' = [queriesPage EXCEPT !.resolvingQueryId = queryId]
          /\ requests' = requests (+)
               One(Req("resolve", "sent",
                       [id |-> queryId, response_text |-> Trim(queriesPage.resolveResponse)]))
          /\ toast' = NoToast
  /\ UnchangedAbove
  /\ UNCHANGED <<route, srvCart, srvProfile, srvQueries, checkoutPage, dashboardPage,
                 onboardingPage, inventoryPage>>

\* The remote API resolves the query.
ServerResolve(r) ==
  /\ route = "queries"
  /\ BagIn(r, requests) /\ r.kind = "resolve" /\ r.stage = "sent"
  /\ requests' = (requests (-) One(r)) (+) One(Req("resolve", "ok", r.data))
  /\ srvQueries' = [srvQueries EXCEPT ![r.data.id] = TRUE]
  /\ toast' = NoToast
  /\ UnchangedAbove
  /\ UNCHANGED <<route, srvCart, srvProfile, checkoutPage, dashboardPage, onboardingPage,
                 queriesPage, inventoryPage>>

\* handleResolve(queryId) after its fetch, up to the fetch of the
\* loadQueries() it awaits or to its end.
HandleResolveSettled(r, outcome) ==
  /\ route = "queries"
  /\ BagIn(r, requests) /\ r.kind = "resolve"
  /\ Answered(r, outcome)
  /\ IF outcome = "unauth"
     THEN /\ toast' = Toast("error", "Please sign in to continue")
          /\ route' = "signin"
          /\ requests' = EmptyBag
          /\ queriesPage' = [queriesPage EXCEPT !.resolvingQueryId = Null]
     ELSE IF outcome = "fail"
     THEN /\ toast' = Toast("error", "Failed to resolve query")
          /\ requests' = requests (-) One(r)
          /\ queriesPage' = [queriesPage EXCEPT !.resolvingQueryId = Null]
          /\ UNCHANGED route
     ELSE /\ toast' = Toast("success", "Query resolved successfully")
          /\ queriesPage' = [queriesPage EXCEPT !.showResolveForm = Null,
                                                !.resolveResponse = <<>>,
                                                !.loading = TRUE,
                                                !.errorMessage = "null"]
          /\ requests' = (requests (-) One(r)) (+)
               One(Req("queries", "sent", [resumes |-> TRUE, queries |-> <<>>]))
          /\ UNCHANGED route
  /\ UnchangedAbove
  /\ UNCHANGED <<srvCart, srvProfile, srvQueries, checkoutPage, dashboardPage,
                 onboardingPage, inventoryPage>>

NextQueries ==
  \/ RetryQueries
  \/ \E r \in BagToSet(requests) : ServerQueries(r)
  \/ \E r \in BagToSet(requests), o \in Outcomes : QueriesLoaded(r, o)
  \/ \E id \in QueryIds : OpenResolveForm(id)
  \/ CancelResolve
  \/ \E v \in TextInputs : TypeResponse(v)
  \/ \E id \in QueryIds : HandleResolve(id)
  \/ \E r \in BagToSet(requests) : ServerResolve(r)
  \/ \E r \in BagToSet(requests), o \in Outcomes : HandleResolveSettled(r, o)

(* ======================= new product page: the model ==================== *)

\* The value of a text of digits.
RECURSIVE DigitsValue(_)
DigitsValue(s) ==
  IF s = <<>> THEN 0
  ELSE 10 * DigitsValue(SubSeq(s, 1, Len(s) - 1))
       + (CHOOSE d \in 0..9 : <<"0", "1", "2", "3", "4", "5", "6", "7", "8", "9">>[d + 1] = s[Len(s)])

\* Number(text) for the texts of NumberInputs: the blank text is 0, an
\* optional sign and digits are their value, any other text is NaN.
ParseNumber(text) ==
  LET t == Trim(text)
      unsigned == IF t # <<>> /\ Head(t) = "-" THEN Tail(t) ELSE t
  IN  IF t = <<>> THEN [nan |-> FALSE, value |-> 0]
      ELSE IF unsigned # <<>> /\ \A i \in DOMAIN unsigned : unsigned[i] \in Digits
      THEN [nan |-> FALSE,
            value |-> IF Head(t) = "-" THEN 0 - DigitsValue(unsigned)
                      ELSE DigitsValue(unsigned)]
      ELSE [nan |-> TRUE, value |-> 0]

\* The values typed into the price and stock fields.
NumberInputs ==
  {<<>>, <<"0">>, <<"2">>, <<"-", "2">>, <<"-", "0">>, <<"x">>, <<"2", "x">>, <<"1", "0">>}

\* The new product page after construction; imageUrl is "" or the url of
\* the uploaded image.  The description is checked nowhere and left out.
NewInventoryPage ==
  [name |-> <<>>, price |-> <<>>, stockQty |-> <<>>, imageUrl |-> "",
   uploadingImage |-> FALSE, saving |-> FALSE]

\* Typing into a field of the form; no field is ever disabled.
InventoryTyped(page) ==
  /\ route = "inventoryNew"
  /\ page # inventoryPage
  /\ inventoryPage' = page
  /\ toast' = NoToast
  /\ UnchangedAbove
  /\ UNCHANGED <<route, srvCart, srvProfile, srvQueries, requests, checkoutPage,
                 dashboardPage, onboardingPage, queriesPage>>

TypeName(value) == InventoryTyped([inventoryPage EXCEPT !.name = value])
TypePrice(value) == InventoryTyped([inventoryPage EXCEPT !.price = value])
TypeStock(value) == InventoryTyped([inventoryPage EXCEPT !.stockQty = value])

\* handleFileChange(event) with a file, up to the fetch of uploadImage.
HandleFileChange ==
  /\ route = "inventoryNew"
  /\ BagCardinality(requests) < MaxInFlight
  /\ inventoryPage' = [inventoryPage EXCEPT !.uploadingImage = TRUE]
  /\ requests' = requests (+) One(Req("upload", "sent", NoData))
  /\ toast' = NoToast
  /\ UnchangedAbove
  /\ UNCHANGED <<route, srvCart, srvProfile, srvQueries, checkoutPage, dashboardPage,
                 onboardingPage, queriesPage>>

\* The remote API stores the image or the product.
ServerInventory(r) ==
  /\ route = "inventoryNew"
  /\ BagIn(r, requests) /\ r.kind \in {"upload", "product"} /\ r.stage = "sent"
  /\ requests' = (requests (-) One(r)) (+) One(Req(r.kind, "ok", r.data))
  /\ toast' = NoToast
  /\ UnchangedAbove
  /\ UNCHANGED <<route, srvCart, srvProfile, srvQueries, checkoutPage, dashboardPage,
                 onboardingPage, queriesPage, inventoryPage>>

\* handleFileChange(event) after the fetch of uploadImage; a 401 is one
\* of the answers that are not OK.
FileUploaded(r, outcome) ==
  /\ route = "inventoryNew"
  /\ BagIn(r, requests) /\ r.kind = "upload"
  /\ Answered(r, outcome)
  /\ requests' = requests (-) One(r)
  /\ IF outcome = "ok"
     THEN /\ inventoryPage' = [inventoryPage EXCEPT !.imageUrl = "url",
                                                    !.uploadingImage = FALSE]
          /\ toast' = Toast("success", "Image uploaded")
     ELSE /\ inventoryPage' = [inventoryPage EXCEPT !.uploadingImage = FALSE]
          /\ toast' = Toast("error", "Failed to upload image")
  /\ UnchangedAbove
  /\ UNCHANGED <<route, srvCart, srvProfile, srvQueries, checkoutPage, dashboardPage,
                 onboardingPage, queriesPage>>

\* handleSubmit() of the new product page accepting every stock.
InventoryRejects_NoStockCheck(page) ==
  LET parsedPrice == ParseNumber(page.price)
  IN  IF Trim(page.name) = <<>> THEN "Product name is required"
      ELSE IF page.imageUrl = "" THEN "Please upload an image"
      ELSE IF parsedPrice.nan \/ parsedPrice.value <= 0 THEN "Enter a valid price"
      ELSE ""

\* handleSubmit() of the new product page: the message of the check that
\* fails, "" when none does.
InventoryRejects(page) ==
  LET parsedPrice == ParseNumber(page.price)
      parsedStock == ParseNumber(page.stockQty)
  IN  IF Trim(page.name) = <<>> THEN "Product name is required"
      ELSE IF page.imageUrl = "" THEN "Please upload an image"
      ELSE IF parsedPrice.nan \/ parsedPrice.value <= 0 THEN "Enter a valid price"
      ELSE IF parsedStock.nan \/ parsedStock.value < 0 THEN "Enter a valid stock quantity"
      ELSE ""

\* The submit button: disabled={saving || uploadingImage}
InventorySubmitEnabled ==
  /\ route = "inventoryNew"
  /\ ~(inventoryPage.saving \/ inventoryPage.uploadingImage)

\* handleSubmit() of the new product page up to its fetch, or to the
\* return of a check that fails.
InventorySubmit ==
  /\ InventorySubmitEnabled
  /\ IF InventoryRejects(inventoryPage) # ""
     THEN /\ toast' = Toast("error", InventoryRejects(inventoryPage))
          /\ UNCHANGED <<inventoryPage, requests>>
     ELSE /\ inventoryPage' = [inventoryPage EXCEPT !.saving = TRUE]
          /\ requests' = requests (+)
               One(Req("product", "sent",
                       [name |-> Trim(inventoryPage.name),
                        price |-> ParseNumber(inventoryPage.price).value,
                        stock_qty |-> ParseNumber(inventoryPage.stockQty).value,
                        image_url |-> inventoryPage.imageUrl]))
          /\ toast' = NoToast
  /\ UnchangedAbove
  /\ UNCHANGED <<route, srvCart, srvProfile, srvQueries, checkoutPage, dashboardPage,
                 onboardingPage, queriesPage>>

\* handleSubmit() of the new product page after its fetch.
InventorySubmitted(r, outcome) ==
  /\ route = "inventoryNew"
  /\ BagIn(r, requests) /\ r.kind = "product"
  /\ Answered(r, outcome)
  /\ requests' = requests (-) One(r)
  /\ inventoryPage' = [inventoryPage EXCEPT !.saving = FALSE]
  /\ IF outcome = "unauth"
     THEN /\ toast' = Toast("error", "Please sign in to add products")
          /\ route' = "signin"
     ELSE IF outcome = "fail"
     THEN /\ toast' = Toast("error", "Failed to create product")
          /\ UNCHANGED route
     ELSE /\ toast' = Toast("success", "Product created")
          /\ route' = "inventory"
  /\ UnchangedAbove
  /\ UNCHANGED <<srvCart, srvProfile, srvQueries, checkoutPage, dashboardPage,
                 onboardingPage, queriesPage>>

NextInventory ==
  \/ \E v \in TextInputs : TypeName(v)
  \/ \E v \in NumberInputs : TypePrice(v)
  \/ \E v \in NumberInputs : TypeStock(v)
  \/ HandleFileChange
  \/ \E r \in BagToSet(requests) : ServerInventory(r)
  \/ \E r \in BagToSet(requests), o \in Outcomes : FileUploaded(r, o)
  \/ InventorySubmit
  \/ \E r \in BagToSet(requests), o \in Outcomes : InventorySubmitted(r, o)

\* The remote API and the requests of the page that is opened: onMount of
\* the checkout page has called loadCart(), onMount of the dashboard and of
\* the onboarding page have sent their fetch, onMount of the queries page
\* has called loadQueries().
InitForms ==
  /\ srvProfile \in IF route \in {"dashboard", "onboarding"} THEN Profiles
                     ELSE {[onboarded |-> FALSE, retailer |-> NoRetailer]}
  /\ srvQueries \in IF route = "queries" THEN [QueryIds -> BOOLEAN]
                     ELSE {[i \in QueryIds |-> FALSE]}
  /\ requests = IF route = "checkout" THEN One(Req("checkoutCart", "sent", NoCart))
                ELSE IF route = "dashboard" THEN One(Req("dashboardMe", "sent", NoData))
                ELSE IF route = "onboarding" THEN One(Req("onboardingMe", "sent", NoData))
                ELSE IF route = "queries"
                THEN One(Req("queries", "sent", [resumes |-> FALSE, queries |-> <<>>]))
                ELSE EmptyBag
  /\ InitCheckoutPage
  /\ dashboardPage = NewDashboardPage
  /\ onboardingPage = NewOnboardingPage
  /\ queriesPage = NewQueriesPage
  /\ inventoryPage = NewInventoryPage

\* The carts the remote API may hold when the detail page is opened.
DetailCarts ==
  {[p \in Products |-> IF p = DetailProduct THEN n ELSE 0] : n \in 0..StockQty(DetailProduct)}

\* The remote cart and the requests of the page that is opened: onMount of
\* the listing has called loadProducts(''), the $effect of the detail page
\* loadProduct(id), onMount of the cart page loadCart().
InitCart ==
  /\ srvCart \in IF route = "detail" THEN DetailCarts
                 ELSE IF route \in {"cart", "checkout"} THEN CartPageCarts ELSE {NoCart}
  /\ cartReqs = EmptyBag
  /\ fetches = IF route = "wholesale" THEN One(Fetch("products", "sent", NoCart))
               ELSE IF route = "detail"
               THEN One(DetailFetch("product", "sent", NoCart, DetailProduct, 1))
               ELSE IF route = "cart" THEN One(Fetch("cart", "sent", NoCart))
               ELSE EmptyBag
  /\ reported = [p \in Products |-> Null]

\* The wholesale listing after construction.
InitWholesale ==
  wholesalePage = [loading |-> TRUE, errorMessage |-> "null",
                   allProducts |-> <<>>, products |-> <<>>,
                   own |-> NoObjects, ownSerial |-> 0,
                   minPrice |-> Null, maxPrice |-> Null, sortBy |-> "default"]

\* The detail page after construction.
InitDetail ==
  detailPage = [id |-> DetailProduct, calls |-> 1, currentFetch |-> 1,
                loading |-> TRUE, error |-> "null", product |-> NoProduct,
                cartQty |-> Null, isQtyLoading |-> FALSE]

Init ==
  /\ route \in Routes
  /\ srvStatus \in IF route = "orders" THEN [Items -> InitialStatus]
                   ELSE {[i \in Items |-> "pending"]}
  /\ InitOrdersPage
  /\ InitCart
  /\ InitWholesale
  /\ InitDetail
  /\ InitCartPage
  /\ InitForms
  /\ toast = NoToast

InitOrders == Init /\ route = "orders"

NextForms == NextProfile \/ NextQueries \/ NextInventory

Next == NextOrders \/ NextWholesale \/ NextDetail \/ NextCart \/ NextCheckout \/ NextForms

Spec == Init /\ [][Next]_vars

SpecOrders == InitOrders /\ [][NextOrders]_vars

InitWholesaleOnly == Init /\ route = "wholesale"

SpecWholesale == InitWholesaleOnly /\ [][NextWholesale]_vars

InitDetailOnly == Init /\ route = "detail"

SpecDetail == InitDetailOnly /\ [][NextDetail]_vars

InitCartOnly == Init /\ route = "cart"

SpecCart == InitCartOnly /\ [][NextCart]_vars

InitCheckoutOnly == Init /\ route = "checkout"

SpecCheckout == InitCheckoutOnly /\ [][NextCheckout]_vars

InitProfileOnly == Init /\ route \in {"dashboard", "onboarding"}

SpecProfile == InitProfileOnly /\ [][NextProfile]_vars

InitQueriesOnly == Init /\ route = "queries"

SpecQueries == InitQueriesOnly /\ [][NextQueries]_vars

InitFormsOnly == Init /\ route \in {"dashboard", "onboarding", "queries", "inventoryNew"}

SpecForms == InitFormsOnly /\ [][NextForms]_vars


(* ====================== orders page: the claims ======================== *)

\* The status-update requests for item i that have not settled.
PatchesFor(i) ==
  LET S == {r \in BagToSet(patches) : r.item = i}
  IN  BagCardinality([r \in S |-> CopiesIn(r, patches)])

\* The status-update requests issued in this step.
IssuedPatches ==
  {r \in BagToSet(patches') : CopiesIn(r, patches') > CopiesIn(r, patches) /\ r.stage = "sent"}

\* The statuses reachable from a status along the lifecycle graph.
Forward(a, b) ==
  \/ a = b
  \/ <<a, b>> \in Transition
  \/ \E c \in Status : <<a, c>> \in Transition /\ <<c, b>> \in Transition
  \/ \E c, d \in Status :
       <<a, c>> \in Transition /\ <<c, d>> \in Transition /\ <<d, b>> \in Transition

\* C1 (as claimed): for every order item at most one status-update request
\* is outstanding, and while one is outstanding no action control of that
\* item can be clicked.
C1_SingleInFlightPerItem ==
  \A i \in Items :
    PatchesFor(i) > 0 =>
      /\ PatchesFor(i) = 1
      /\ \A s \in Status : ~CanClick(i, s)

\* C2: every status-update request the page issues asks for a successor,
\* in the lifecycle graph, of the status the item is displayed with.
C2_RequestsFollowGraph ==
  [][\A r \in IssuedPatches :
       /\ r.item \in DOMAIN ordersPage.orders
       /\ <<ordersPage.orders[r.item], r.status>> \in Transition]_vars

C2_Witness ==
  \E r \in BagToSet(patches) :
    /\ r.status = "delivered" /\ r.stage = "sent"
    /\ ordersPage.orders[r.item] = "shipped"

\* C3: an item displayed as delivered or rejected has no action control,
\* and no status-update request is ever issued for an item so displayed.
C3_TerminalHasNoAction ==
  /\ [](\A i \in DOMAIN ordersPage.orders :
          ordersPage.orders[i] \in {"delivered", "rejected"} =>
            \A s \in Status : ~CanClick(i, s))
  /\ [][\A r \in IssuedPatches :
          ordersPage.orders[r.item] \notin {"delivered", "rejected"}]_vars

C3_Witness ==
  /\ OrdersListShown
  /\ \E i, j \in DOMAIN ordersPage.orders :
       ordersPage.orders[i] = "delivered" /\ ordersPage.orders[j] = "rejected"

\* C4 (as claimed): the displayed status of an item never moves backwards
\* along the lifecycle graph.
C4_DisplayedStatusMonotonic ==
  [][\A i \in DOMAIN ordersPage.orders \cap DOMAIN ordersPage'.orders :
       Forward(ordersPage.orders[i], ordersPage'.orders[i])]_vars

C6_FailedUpdateLeavesList ==
  [][toast'.msg = "Failed to update status" =>
       /\ ordersPage'.orders = ordersPage.orders
       /\ ordersPage'.loading = ordersPage.loading
       /\ loads' = loads
       /\ patches' \sqsubseteq patches
       /\ BagCardinality(patches') = BagCardinality(patches) - 1
       /\ ordersPage'.updatingItemId = NoItem]_vars

C6_Witness ==
  /\ toast.msg = "Failed to update status"
  /\ OrdersListShown
  /\ ordersPage.updatingItemId = NoItem
  /\ \E i \in Items : ordersPage.orders[i] = "accepted"

(* ================= cart lines of the listing and the detail page: the claims ================= *)

\* The cart mutation requests for product p that have not settled.
MutationsFor(p) ==
  LET S == {q \in BagToSet(cartReqs) : q.pid = p}
  IN  BagCardinality([q \in S |-> CopiesIn(q, cartReqs)])

\* The cart mutation requests issued in this step.
IssuedCartReqs ==
  {q \in BagToSet(cartReqs') :
     /\ BagCardinality(cartReqs') > BagCardinality(cartReqs)
     /\ CopiesIn(q, cartReqs') > CopiesIn(q, cartReqs)}

\* The quantities the mounted page holds for the line of product p, one
\* for each object of the product in its collections.
LineQtys(p) ==
  IF route = "wholesale"
  THEN {wholesalePage.allProducts[i].cartQty :
          i \in {j \in DOMAIN wholesalePage.allProducts : wholesalePage.allProducts[j].id = p}}
  ELSE IF route = "detail" /\ detailPage.product = p
       THEN {detailPage.cartQty}
       ELSE {}

\* The quantity a line shows for an absolute quantity the remote API
\* reported (Null: it reported none, or a quantity <= 0).
Settles(n) == IF n = Null \/ n <= 0 THEN Null ELSE n

\* No request of the mounted page is in flight.
Quiescent ==
  /\ route \in {"wholesale", "detail"}
  /\ cartReqs = EmptyBag
  /\ fetches = EmptyBag

\* C7 (as claimed): once every request in flight has settled, each line of
\* the listing shows the absolute quantity the remote API reported last for
\* its product, and no quantity if that is <= 0.
C7_SettledQuantityIsReported ==
  Quiescent => \A p \in Products : LineQtys(p) \subseteq {Settles(reported[p])}

\* C8 (as claimed): for every product at most one cart mutation request is
\* in flight.
C8_SingleMutationPerProduct ==
  \A p \in Products : MutationsFor(p) <= 1

\* C9 (as claimed): no increment is carried out on a line whose quantity
\* has reached the stock of its product: no request is issued for it.
C9_NoIncrementAtStockLimit ==
  [][\A q \in IssuedCartReqs : q.kind = "inc" => q.oldQty < StockQty(q.pid)]_vars

\* C10 (as claimed): the step that handles a failed increment or decrement
\* leaves every object of the line with the quantity it had before the
\* action.
C10_FailedMutationRestoresQuantity ==
  [][toast'.msg = "Failed to update quantity" =>
       \A q \in BagToSet(cartReqs) :
         cartReqs' = cartReqs (-) One(q) => LineQtys(q.pid)' \subseteq {q.oldQty}]_vars

(* ============== add, decrement and delete: the claims ================== *)

\* The loading flags the mounted page holds for the line of product p, one
\* for each object of the product in its collections.
LineLoadings(p) ==
  IF route = "wholesale"
  THEN {wholesalePage.allProducts[i].isQtyLoading :
          i \in {j \in DOMAIN wholesalePage.allProducts : wholesalePage.allProducts[j].id = p}}
  ELSE IF route = "detail" /\ detailPage.product = p
       THEN {detailPage.isQtyLoading}
       ELSE {}

\* The cart mutation request whose answer this step handles without
\* leaving the page, if there is one.
SettledCartReqs ==
  {q \in BagToSet(cartReqs) : cartReqs' = cartReqs (-) One(q) /\ route' = route}

\* C11 (as claimed): add-to-cart sets the quantity of the line to 1 and its
\* loading flag, and sends a delta of +1; the step that handles the answer
\* clears the flag and sets the quantity to the absolute quantity of the
\* answer on success, to none on failure.
C11_AddToCart ==
  [][/\ \A q \in IssuedCartReqs :
          q.kind = "add" =>
            /\ Delta(q) = 1
            /\ LineQtys(q.pid)' = {1}
            /\ LineLoadings(q.pid)' = {TRUE}
     /\ \A q \in SettledCartReqs :
          q.kind = "add" =>
            /\ LineQtys(q.pid)' \subseteq {IF q.stage = "ok" THEN q.quantity ELSE Null}
            /\ LineLoadings(q.pid)' \subseteq {FALSE}]_vars

\* C12 (as claimed): the step that handles a successful decrement whose
\* answer carries a quantity <= 0 leaves the line without a quantity on the
\* listing and on the detail page, and leaves no line on the cart page.
C12_DecrementToZeroRemovesLine ==
  [][\A q \in SettledCartReqs :
       (q.kind = "dec" /\ q.stage = "ok" /\ q.quantity <= 0) =>
         /\ LineQtys(q.pid)' \subseteq {Null}
         /\ route = "cart" => FindItem(cartPage.items', q.pid) = 0]_vars

\* The request of the cart page that this step takes out of flight, if
\* there is one.
HandledCartReqs == {q \in BagToSet(cartReqs) : cartReqs' = cartReqs (-) One(q)}

AllProductsFind(page, productId) ==
  page.allProducts[Find(page.allProducts, productId)]

\* The ids that are in products and in allProducts.
InBothCollections(page) ==
  {p \in SeqToSet(page.products) : Find(page.allProducts, p) # 0}

\* C14: on the listing, after every step that handles the answer to a cart
\* mutation (add, increment, decrement), a success or a failure, every
\* product id that is in products and in allProducts has the same cartQty
\* and the same isQtyLoading in the two collections.
C14_CollectionsAgree ==
  [][\A q \in HandledCartReqs :
        (route = "wholesale" /\ route' = "wholesale") =>
          \A p \in InBothCollections(wholesalePage') :
            /\ ProductsFind(wholesalePage', p).cartQty
                 = AllProductsFind(wholesalePage', p).cartQty
            /\ ProductsFind(wholesalePage', p).isQtyLoading
                 = AllProductsFind(wholesalePage', p).isQtyLoading]_vars

\* A failed increment or decrement was handled on a sorted listing whose
\* filter leaves some product out; the line is in both collections and
\* shows its quantity again.
C14_Witness ==
  /\ route = "wholesale"
  /\ toast.msg = "Failed to update quantity"
  /\ wholesalePage.sortBy # "default"
  /\ \E p \in InBothCollections(wholesalePage) :
        /\ ProductsFind(wholesalePage, p).cartQty >= 1
        /\ ~ProductsFind(wholesalePage, p).isQtyLoading
  /\ InBothCollections(wholesalePage) # SeqToSet([i \in DOMAIN wholesalePage.allProducts |->
                                                    wholesalePage.allProducts[i].id])

(* ================= independence of the cart lines ====================== *)

\* The line of product p in the items of the cart page: a sequence of one
\* line, or of none.
CartLine(p) == SelectSeq(cartPage.items, LAMBDA i : i.product_id = p)

\* C15 (as claimed): a step that issues a mutation for a product, or handles
\* its answer, changes the quantity and the loading flag of no other
\* product.
C15_LinesAreIndependent ==
  [][\A q \in IssuedCartReqs \cup HandledCartReqs :
       \A b \in Products \ {q.pid} :
         /\ CartLine(b)' = CartLine(b)
         /\ route' = route =>
              /\ LineQtys(b)' = LineQtys(b)
              /\ LineLoadings(b)' = LineLoadings(b)]_vars

(* ==================== bounds of the line quantities ==================== *)

\* The quantities of the lines the mounted page holds for product p.
LocalQtys(p) ==
  IF route = "cart"
  THEN {CartLine(p)[i].quantity : i \in DOMAIN CartLine(p)}
  ELSE LineQtys(p) \ {Null}

\* C16 (as claimed): the quantity of every line is positive in every
\* state, optimistic ones included: never negative, and a line of quantity
\* 0 is no line (no quantity on the listing, no item on the cart page).
C16_QuantityPositive ==
  \A p \in Products : \A n \in LocalQtys(p) : n > 0

\* C17 (as claimed): the quantity of every line is at most the stock of
\* its product, on the listing, the detail page and the cart page.
C17_QuantityWithinStock ==
  \A p \in Products : \A n \in LocalQtys(p) : n <= StockQty(p)

(* =================== validation before checkout ======================== *)

\* The validation request whose answer this step handles, if there is one.
HandledValidations ==
  {f \in BagToSet(fetches) : f.kind = "validate" /\ fetches' = fetches (-) One(f)}

\* This step navigates to checkout.
GoesToCheckout == route # "checkout" /\ route' = "checkout"

\* C18 (as claimed): a step navigates to checkout only if it handles the
\* answer to a validation request and that answer is OK with valid = true;
\* the step that handles any other answer to a validation request does not
\* navigate to checkout; the step that handles any answer clears the
\* validating flag.
C18_CheckoutOnlyAfterValid ==
  [][/\ GoesToCheckout =>
          \E f \in HandledValidations : f.stage = "ok" /\ f.valid
     /\ \A f \in HandledValidations :
          /\ ~(f.stage = "ok" /\ f.valid) => ~GoesToCheckout
          /\ ~cartPage.validatingStock']_vars

\* The page has gone to checkout, and the validating flag is cleared.
C18_Witness ==
  /\ route = "checkout"
  /\ cartPage.items # <<>>
  /\ ~cartPage.validatingStock

\* C19 (as claimed): the step that handles an answer with valid = false
\* and a list of n > 0 shortfall records raises a notification built from
\* the first record: for n = 1 from its name, its available and its
\* requested amount, for n > 1 from its name and the count n - 1.
C19_ShortfallMessage ==
  [][\A f \in HandledValidations :
       (f.stage = "ok" /\ ~f.valid /\ f.errors # <<>>) =>
         /\ toast'.level = "error"
         /\ Len(f.errors) = 1 =>
              /\ toast'.msg =
                   "{product_name}: Only {available} available (requested: {requested})"
              /\ toast'.args = <<f.errors[1].product_name, f.errors[1].available,
                                 f.errors[1].requested>>
         /\ Len(f.errors) > 1 =>
              /\ toast'.msg =
                   "{product_name} and {n} other item(s) have insufficient stock. Please update your cart."
              /\ toast'.args = <<f.errors[1].product_name, Len(f.errors) - 1>>]_vars

\* Two lines were short of stock when the cart was validated, and the
\* notification names the first and counts the other.
C19_Witness ==
  /\ route = "cart"
  /\ toast.level = "error"
  /\ Len(Shortfalls(srvCart)) = 2
  /\ toast.args = <<Shortfalls(srvCart)[1].product_name, 1>>

(* ============================ 401 answers ============================== *)

\* The notifications the pages raise for a 401 answer.
SignInMessages ==
  {"Please sign in to continue", "Please sign in to add items to cart",
   "Please sign in to view your cart"}

\* This step handles a 401 answer: it raises the notification for one, or
\* takes out of flight a request that carries one.
Handles401 ==
  \/ toast'.msg \in SignInMessages
  \/ \E f \in BagToSet(fetches) : f.stage = "unauth" /\ fetches' = fetches (-) One(f)

\* The requests in flight, of every kind.
AllInFlight == BagCardinality(cartReqs) + BagCardinality(fetches)
               + BagCardinality(patches) + BagCardinality(loads)

\* C20 (as claimed): the step that handles a 401 answer redirects to the
\* sign-in page and sends no request.
C20_UnauthorizedRedirects ==
  [][Handles401 => (route' = "signin" /\ AllInFlight' < AllInFlight)]_vars

(* ================== error outcomes of a cart mutation ================== *)

\* C21 (as claimed): the step that handles an error outcome of a cart
\* mutation request (a failure or a 401; add, increment, decrement or
\* delete) leaves the line of the request with the quantity it had before
\* the action and with its loading flag cleared.
C21_ErrorReversesOptimisticChange ==
  [][\A q \in HandledCartReqs :
        toast'.level = "error" =>
          IF route \in CartPageRoutes
          THEN \A i \in DOMAIN CartLine(q.pid)' :
                 /\ CartLine(q.pid)'[i].quantity = q.oldQty
                 /\ ~CartLine(q.pid)'[i].isQtyLoading
          ELSE /\ LineQtys(q.pid)' \subseteq {q.oldQty}
               /\ LineLoadings(q.pid)' \subseteq {FALSE}]_vars

(* ================= superseded loads of the detail page ================= *)

\* The first request of the most recent call of loadProduct is in flight.
LatestLoadInFlight ==
  \E f \in BagToSet(fetches) :
    f.kind = "product" /\ f.ctl = detailPage.calls /\ f.stage = "sent"

\* The requests of loadProduct this step handles that were aborted.
HandledAborted ==
  {f \in BagToSet(fetches) : f.stage = "aborted" /\ fetches' = fetches (-) One(f)}

\* C22 (as claimed): on the detail page, in every interleaving of
\* navigations and answers, the loading indicator is set while the most
\* recent load is in flight; once all loads have settled a displayed product
\* is the one of the id requested last; and the step that handles an
\* aborted request changes neither the product nor the error.
C22_NavigationSupersedesLoad ==
  [][route' = "detail" =>
       /\ LatestLoadInFlight' => detailPage'.loading
       /\ (fetches' = EmptyBag /\ DetailShown') => detailPage'.product = detailPage'.id
       /\ HandledAborted # {} =>
            /\ detailPage'.product = detailPage.product
            /\ detailPage'.error = detailPage.error]_vars

(* ==================== filter and sort of the listing =================== *)

\* This step is a handler of the filter controls of the listing
\* (handleMinPriceChange, handleMaxPriceChange, handleSortChange,
\* clearFilters): the page changes and no request is sent or handled.
FilterStep ==
  /\ route = "wholesale" /\ route' = "wholesale"
  /\ wholesalePage' # wholesalePage
  /\ cartReqs' = cartReqs /\ fetches' = fetches

\* C24: a handler of the filter controls leaves cartQty and isQtyLoading of
\* every product as they were, in allProducts and in products, a product
\* with a mutation in flight included; and in every state of the listing
\* products holds only ids of allProducts whose price is within the bounds
\* minPrice and maxPrice.
C24_FilterKeepsCartState ==
  [][/\ FilterStep =>
          /\ \A i \in DOMAIN wholesalePage.allProducts :
               Find(wholesalePage'.allProducts, wholesalePage.allProducts[i].id) # 0
               /\ AllProductsFind(wholesalePage', wholesalePage.allProducts[i].id)
                    = wholesalePage.allProducts[i]
          /\ \A p \in SeqToSet(wholesalePage'.products) :
               ProductsFind(wholesalePage', p)
                 = IF p \in SeqToSet(wholesalePage.products)
                   THEN ProductsFind(wholesalePage, p)
                   ELSE AllProductsFind(wholesalePage, p)
     /\ route' = "wholesale" =>
          \A p \in SeqToSet(wholesalePage'.products) :
            /\ Find(wholesalePage'.allProducts, p) # 0
            /\ wholesalePage'.minPrice # Null => Price(p) >= wholesalePage'.minPrice
            /\ wholesalePage'.maxPrice # Null => Price(p) <= wholesalePage'.maxPrice]_vars

\* The filter was applied while a mutation of product 1 was in flight:
\* the product is filtered out of products and still marked loading.
C24_Witness ==
  /\ route = "wholesale"
  /\ wholesalePage.minPrice = 15
  /\ wholesalePage.products = <<2>>
  /\ AllProductsFind(wholesalePage, 1).isQtyLoading
  /\ AllProductsFind(wholesalePage, 1).cartQty = 2
  /\ \E q \in BagToSet(cartReqs) : q.pid = 1 /\ q.live

(* ================ reload of the list during a mutation ================= *)

\* C25 (as claimed): on the listing no line is marked loading while no
\* mutation request for its product is in flight, and once every request
\* has settled each line shows the quantity the remote API reported for
\* its product, a reload of the list during a mutation included.
C25_ReloadDuringMutation ==
  route = "wholesale" =>
    /\ \A p \in Products : MutationsFor(p) = 0 => LineLoadings(p) \subseteq {FALSE}
    /\ Quiescent => \A p \in Products : LineQtys(p) \subseteq {Settles(reported[p])}

(* ========================== checkout: claims =========================== *)

\* The number of requests of a kind in flight.
InFlightOf(kind) ==
  LET S == {r \in BagToSet(requests) : r.kind = kind}
  IN  BagCardinality([r \in S |-> CopiesIn(r, requests)])

\* The place-order requests answered OK whose answer this step handles.
HandledPlaceOrders ==
  {r \in BagToSet(requests) :
     /\ r.kind = "checkout" /\ r.stage = "ok"
     /\ route \in CheckoutRoutes
     /\ \/ requests' = requests (-) One(r)
        \/ route' = "payment"}

\* C26 (as claimed): the success state of the checkout page is entered
\* only by the answer to a successful checkout with offline payment, and
\* the answer to a successful checkout with online payment redirects to the
\* payment session and does not show the success state.
C26_SuccessOnlyOffline ==
  [][/\ (checkoutPage'.orderPlaced /\ ~checkoutPage.orderPlaced) =>
          \E r \in HandledPlaceOrders : r.data.payment_method = "offline"
     /\ \A r \in HandledPlaceOrders :
          r.data.payment_method = "online" =>
            route' = "payment" /\ ~checkoutPage'.orderPlaced]_vars

\* C27: at most one place-order request is in flight, Place Order is
\* disabled exactly while placingOrder is set or the cart is empty,
\* placingOrder is set exactly while the request is in flight, and a
\* failed request does not set the order-placed state.
C27_OnePlaceOrder ==
  [][/\ InFlightOf("checkout")' <= 1
     /\ checkoutPage'.placingOrder = (InFlightOf("checkout")' = 1)
     /\ (route' = "checkout" /\ ~checkoutPage'.orderPlaced) =>
          (ENABLED HandlePlaceOrder)' =
            ~(checkoutPage'.placingOrder \/ checkoutPage'.cartItems = <<>>)
     /\ toast'.msg = "Failed to place order" =>
          /\ ~checkoutPage'.placingOrder
          /\ checkoutPage'.orderPlaced = checkoutPage.orderPlaced]_vars

\* A place-order request failed: the page is idle again, the order is
\* not placed and Place Order is enabled.
C27_Witness ==
  /\ route = "checkout"
  /\ toast.msg = "Failed to place order"
  /\ ~checkoutPage.placingOrder
  /\ ~checkoutPage.orderPlaced
  /\ checkoutPage.cartItems # <<>>
  /\ InFlightOf("checkout") = 0

(* ========================== dashboard: claims ========================== *)

\* The profile checks of the dashboard whose answer this step handles.
HandledDashboardChecks ==
  {r \in BagToSet(requests) :
     /\ r.kind = "dashboardMe"
     /\ route = "dashboard"
     /\ CopiesIn(r, requests') < CopiesIn(r, requests)
     /\ InFlightOf("dashboardMe")' < InFlightOf("dashboardMe")}

\* C28: the dashboard is shown only by an OK answer that reports
\* onboarded; a 401 and any other answer that is not OK redirect to
\* sign-in, an OK answer that reports not onboarded redirects to
\* onboarding; a mount has one check in flight and redirects at most
\* once, and every outcome clears the checking indicator.
C28_DashboardGate ==
  [][/\ (DashboardShown' /\ ~DashboardShown) =>
          \E r \in HandledDashboardChecks : r.stage = "ok" /\ r.data.onboarded
     /\ \A r \in HandledDashboardChecks :
          /\ ~dashboardPage'.checking
          /\ r.stage = "sent" => route' = "signin" /\ toast'.level = "error"
          /\ (r.stage = "ok" /\ ~r.data.onboarded) => route' = "onboarding"
          /\ (r.stage = "ok" /\ r.data.onboarded) => DashboardShown'
          /\ route' # route => ~dashboardPage.hasRedirected /\ dashboardPage'.hasRedirected
     /\ InFlightOf("dashboardMe")' <= 1
     /\ dashboardPage'.hasRedirected => route' # "dashboard"]_vars

\* The onboarding page was left for the dashboard after the profile was
\* completed, and the dashboard is shown.
C28_Witness ==
  /\ DashboardShown
  /\ srvProfile.onboarded
  /\ onboardingPage.redirecting
  /\ ~onboardingPage.fetching
  /\ onboardingPage.businessName # <<>>

(* ===================== onboarding: phone handling ====================== *)

\* The digits of a text, in order.
DigitsOf(text) == SelectSeq(text, LAMBDA c : c \in Digits)

\* C30: sanitizePhone keeps the digits only, then drops a leading 91 when
\* exactly 12 digits remain, else a leading 0 when exactly 11 remain;
\* validatePhone accepts exactly the texts whose sanitized form has 10
\* digits; sanitizePhone is idempotent; every profile request in flight
\* carries a phone of exactly 10 digits.
C30_PhoneHandling ==
  /\ \A x \in PhoneInputs \cup {onboardingPage.phone} :
       LET d == DigitsOf(x)
           expected == IF Len(d) = 12 /\ d[1] = "9" /\ d[2] = "1" THEN SubSeq(d, 3, 12)
                       ELSE IF Len(d) = 11 /\ d[1] = "0" THEN SubSeq(d, 2, 11)
                       ELSE d
       IN  /\ SanitizePhone(x) = expected
           /\ ValidatePhone(x) = (Len(expected) = 10)
           /\ SanitizePhone(SanitizePhone(x)) = SanitizePhone(x)
  /\ \A r \in BagToSet(requests) :
       r.kind = "profile" =>
         /\ Len(r.data.phone) = 10
         /\ \A i \in DOMAIN r.data.phone : r.data.phone[i] \in Digits

\* A profile request is in flight for a phone typed with a leading +91:
\* the request carries the 10 digits after the prefix.
C30_Witness ==
  /\ route = "onboarding"
  /\ onboardingPage.loading
  /\ Len(DigitsOf(onboardingPage.phone)) = 12
  /\ Head(onboardingPage.phone) = "+"
  /\ \E r \in BagToSet(requests) :
       r.kind = "profile" /\ r.stage = "sent" /\ r.data.phone = Repeat("7", 10)

(* =========================== queries: claims =========================== *)

\* The resolve requests whose answer this step handles.
HandledResolves ==
  {r \in BagToSet(requests) :
     /\ r.kind = "resolve"
     /\ route = "queries"
     /\ InFlightOf("resolve")' < InFlightOf("resolve")}

\* C29: a successful resolve closes the form, clears the draft and
\* issues a reload of the list; a failed one leaves the form and the draft
\* as they are and issues no reload; resolvingQueryId is cleared at the end
\* of both; at most one resolve request is in flight.
C29_ResolveOutcomes ==
  [][/\ \A r \in HandledResolves :
          /\ r.stage = "ok" =>
               /\ queriesPage'.showResolveForm = Null
               /\ queriesPage'.resolveResponse = <<>>
               /\ queriesPage'.loading
               /\ InFlightOf("queries")' = InFlightOf("queries") + 1
          /\ r.stage = "sent" =>
               /\ queriesPage'.showResolveForm = queriesPage.showResolveForm
               /\ queriesPage'.resolveResponse = queriesPage.resolveResponse
               /\ InFlightOf("queries")' <= InFlightOf("queries")
               /\ queriesPage'.resolvingQueryId = Null
     /\ InFlightOf("resolve")' <= 1
     /\ queriesPage'.resolvingQueryId # Null =>
          \/ InFlightOf("resolve")' = 1
          \/ \E r \in BagToSet(requests') : r.kind = "queries" /\ r.data.resumes
     /\ \A id \in QueryIds :
          queriesPage'.resolvingQueryId # Null => ~(ENABLED HandleResolve(id))']_vars

\* A resolve succeeded: the form is closed, the draft is empty and the
\* reload is in flight, with resolvingQueryId still set.
C29_Witness ==
  /\ route = "queries"
  /\ toast.msg = "Query resolved successfully"
  /\ queriesPage.loading
  /\ queriesPage.showResolveForm = Null
  /\ queriesPage.resolveResponse = <<>>
  /\ queriesPage.resolvingQueryId # Null
  /\ InFlightOf("queries") = 1

(* ====================== validation before a fetch ====================== *)

\* The messages of the checks of the three forms.
ValidationMessages ==
  {"Please fill in all fields", "Please enter a valid 10-digit Indian phone number",
   "Product name is required", "Please upload an image", "Enter a valid price",
   "Enter a valid stock quantity", "Please enter a response"}

\* C23: a step that raises the message of a failed check sends no
\* request and changes nothing of the page, and a profile, product or
\* resolve request is sent only for fields that pass every check: no blank
\* required field and a phone of 10 digits; a name, an image, a price that
\* is a number above 0 and a stock that is a number not below 0; a response
\* that is not blank.
C23_ValidationBeforeFetch ==
  [][/\ toast'.msg \in ValidationMessages =>
          /\ toast'.level = "error"
          /\ UNCHANGED <<route, requests, onboardingPage, inventoryPage, queriesPage,
                         srvProfile, srvQueries>>
     /\ InFlightOf("profile")' > InFlightOf("profile") =>
          /\ Trim(onboardingPage.businessName) # <<>>
          /\ Trim(onboardingPage.phone) # <<>>
          /\ Trim(onboardingPage.address) # <<>>
          /\ Len(SanitizePhone(onboardingPage.phone)) = 10
     /\ InFlightOf("product")' > InFlightOf("product") =>
          /\ Trim(inventoryPage.name) # <<>>
          /\ inventoryPage.imageUrl # ""
          /\ ~ParseNumber(inventoryPage.price).nan
          /\ ParseNumber(inventoryPage.price).value > 0
          /\ ~ParseNumber(inventoryPage.stockQty).nan
          /\ ParseNumber(inventoryPage.stockQty).value >= 0
     /\ InFlightOf("resolve")' > InFlightOf("resolve") =>
          Trim(queriesPage.resolveResponse) # <<>>]_vars

\* The new product form was submitted with a name, an image, a price
\* above 0 and a negative stock: the check failed and nothing was sent.
C23_Witness ==
  /\ route = "inventoryNew"
  /\ toast.msg = "Enter a valid stock quantity"
  /\ ParseNumber(inventoryPage.stockQty).value < 0
  /\ ParseNumber(inventoryPage.price).value > 0
  /\ ~inventoryPage.saving
  /\ InFlightOf("product") = 0

=============================================================================
